---- MODULE Spec2Model ----
(***************************************************************************)
(* Model of the WHOIS resolution engine of dns-lookup (package whois):     *)
(* server selection by TLD, the query / referral exchange of Client.Lookup *)
(* and the line-pattern field extractor.                                   *)
(*                                                                         *)
(* A Go string is modelled as a sequence of one-character strings, so that *)
(* splitting, trimming, prefix tests and lengths are computed as the code  *)
(* computes them.                                                          *)
(***************************************************************************)
EXTENDS Integers, Sequences, FiniteSets, TLC

(***************************************************************************)
(* Bounds of the model.                                                    *)
(***************************************************************************)
\* the clock stops advancing at MaxTime
MaxTime == 3

\* the number of goroutines that call Lookup on one client at the same time
NumCalls == 2

\* the length of the longest string of the enumerated arguments of a function
MaxInputLen == 4

\* the number of prefixes put before a domain
MaxPrefixes == 2

\* the number of lines of the enumerated responses
MaxLines == 2

(***************************************************************************)
(* package strings                                                         *)
(***************************************************************************)
\* Op applied to the value of v: v is evaluated once and bound, as a Go local
\* variable is assigned once and then read.
With(v, Op(_)) == CHOOSE r \in {Op(x) : x \in {v}} : TRUE

SetMin(S) == CHOOSE x \in S : \A y \in S : x <= y

SetMax(S) == CHOOSE x \in S : \A y \in S : x >= y

UpperCase == <<"A","B","C","D","E","F","G","H","I","J","K","L","M","N","O","P","Q","R","S","T","U","V","W","X","Y","Z">>

LowerCase == <<"a","b","c","d","e","f","g","h","i","j","k","l","m","n","o","p","q","r","s","t","u","v","w","x","y","z">>

ToLowerChar(c) ==
    IF \E i \in 1..26 : UpperCase[i] = c
    THEN LowerCase[CHOOSE i \in 1..26 : UpperCase[i] = c]
    ELSE c

\* strings.ToLower
ToLower(s) == [i \in 1..Len(s) |-> ToLowerChar(s[i])]

\* unicode.IsSpace, on the characters of the model
IsSpace(c) == c \in {" ", "\t", "\n", "\r"}

\* strings.TrimSpace
TrimSpace(s) ==
    LET keep == {i \in 1..Len(s) : ~IsSpace(s[i])}
    IN IF keep = {} THEN <<>> ELSE SubSeq(s, SetMin(keep), SetMax(keep))

\* strings.HasPrefix
HasPrefix(s, prefix) ==
    Len(s) >= Len(prefix) /\ SubSeq(s, 1, Len(prefix)) = prefix

\* strings.TrimPrefix
TrimPrefix(s, prefix) ==
    IF HasPrefix(s, prefix) THEN SubSeq(s, Len(prefix) + 1, Len(s)) ELSE s

\* strings.Index: the 0-based offset of the first occurrence, or -1
Index(s, substr) ==
    LET at == {i \in 0..(Len(s) - Len(substr)) : SubSeq(s, i + 1, i + Len(substr)) = substr}
    IN IF at = {} THEN -1 ELSE SetMin(at)

\* strings.Contains
Contains(s, substr) == Index(s, substr) >= 0

\* strings.Split with a one-character separator
RECURSIVE Split(_, _)
Split(s, sep) ==
    LET i == Index(s, sep)
    IN IF i < 0 THEN <<s>>
       ELSE <<SubSeq(s, 1, i)>> \o Split(SubSeq(s, i + 2, Len(s)), sep)

\* strings.SplitN(s, sep, 2) with a one-character separator
SplitN2(s, sep) ==
    LET i == Index(s, sep)
    IN IF i < 0 THEN <<s>>
       ELSE <<SubSeq(s, 1, i), SubSeq(s, i + 2, Len(s))>>

\* strings.Join with a one-character separator
RECURSIVE Join(_, _)
Join(elems, sep) ==
    IF Len(elems) = 0 THEN <<>>
    ELSE IF Len(elems) = 1 THEN elems[1]
    ELSE elems[1] \o sep \o Join(Tail(elems), sep)

\* strings.Fields: the maximal runs of non-space characters
RECURSIVE Fields(_)
Fields(s) ==
    LET start == {i \in 1..Len(s) : ~IsSpace(s[i])}
    IN IF start = {} THEN <<>>
       ELSE LET b == SetMin(start)
                stop == {i \in b..Len(s) : IsSpace(s[i])}
                e == IF stop = {} THEN Len(s) + 1 ELSE SetMin(stop)
            IN <<SubSeq(s, b, e - 1)>> \o Fields(SubSeq(s, e, Len(s)))

\* strings.Trim: leading and trailing characters of cutset removed
Trim(s, cutset) ==
    LET keep == {i \in 1..Len(s) : s[i] \notin cutset}
    IN IF keep = {} THEN <<>> ELSE SubSeq(s, SetMin(keep), SetMax(keep))

\* the entries of seq, as a set
Range(seq) == {seq[i] : i \in 1..Len(seq)}

(***************************************************************************)
(* WhoisServer, DefaultWhoisServers, Config, NewClient                     *)
(***************************************************************************)
WhoisServer(host, port) == [Host |-> host, Port |-> port]

\* a Go map built from <<key, value>> pairs
MapOf(pairs) ==
    [k \in {p[1] : p \in pairs} |-> (CHOOSE p \in pairs : p[1] = k)[2]]

EmptyMap == MapOf({})

\* m[k] of a Go map: the zero value when k is absent
MapGet(m, k, zero) == IF k \in DOMAIN m THEN m[k] ELSE zero

DefaultWhoisServers == MapOf({
    <<<<"c","o","m">>, WhoisServer(<<"w","h","o","i","s",".","v","e","r","i","s","i","g","n","-","g","r","s",".","c","o","m">>, <<"4","3">>)>>,
    <<<<"n","e","t">>, WhoisServer(<<"w","h","o","i","s",".","v","e","r","i","s","i","g","n","-","g","r","s",".","c","o","m">>, <<"4","3">>)>>,
    <<<<"o","r","g">>, WhoisServer(<<"w","h","o","i","s",".","p","i","r",".","o","r","g">>, <<"4","3">>)>>,
    <<<<"i","n","f","o">>, WhoisServer(<<"w","h","o","i","s",".","a","f","i","l","i","a","s",".","n","e","t">>, <<"4","3">>)>>,
    <<<<"b","i","z">>, WhoisServer(<<"w","h","o","i","s",".","b","i","z">>, <<"4","3">>)>>,
    <<<<"u","s">>, WhoisServer(<<"w","h","o","i","s",".","n","i","c",".","u","s">>, <<"4","3">>)>>,
    <<<<"u","k">>, WhoisServer(<<"w","h","o","i","s",".","n","i","c",".","u","k">>, <<"4","3">>)>>,
    <<<<"c","o",".","u","k">>, WhoisServer(<<"w","h","o","i","s",".","n","i","c",".","u","k">>, <<"4","3">>)>>,
    <<<<"c","a">>, WhoisServer(<<"w","h","o","i","s",".","c","i","r","a",".","c","a">>, <<"4","3">>)>>,
    <<<<"d","e">>, WhoisServer(<<"w","h","o","i","s",".","d","e","n","i","c",".","d","e">>, <<"4","3">>)>>,
    <<<<"j","p">>, WhoisServer(<<"w","h","o","i","s",".","j","p","r","s",".","j","p">>, <<"4","3">>)>>,
    <<<<"f","r">>, WhoisServer(<<"w","h","o","i","s",".","n","i","c",".","f","r">>, <<"4","3">>)>>,
    <<<<"a","u">>, WhoisServer(<<"w","h","o","i","s",".","a","u","d","a",".","o","r","g",".","a","u">>, <<"4","3">>)>>,
    <<<<"r","u">>, WhoisServer(<<"w","h","o","i","s",".","t","c","i","n","e","t",".","r","u">>, <<"4","3">>)>>,
    <<<<"c","h">>, WhoisServer(<<"w","h","o","i","s",".","n","i","c",".","c","h">>, <<"4","3">>)>>,
    <<<<"i","t">>, WhoisServer(<<"w","h","o","i","s",".","n","i","c",".","i","t">>, <<"4","3">>)>>,
    <<<<"n","l">>, WhoisServer(<<"w","h","o","i","s",".","d","o","m","a","i","n","-","r","e","g","i","s","t","r","y",".","n","l">>, <<"4","3">>)>>,
    <<<<"e","u">>, WhoisServer(<<"w","h","o","i","s",".","e","u">>, <<"4","3">>)>>,
    <<<<"n","z">>, WhoisServer(<<"w","h","o","i","s",".","i","r","s",".","n","e","t",".","n","z">>, <<"4","3">>)>>,
    <<<<"i","o">>, WhoisServer(<<"w","h","o","i","s",".","n","i","c",".","i","o">>, <<"4","3">>)>>,
    <<<<"m","e">>, WhoisServer(<<"w","h","o","i","s",".","n","i","c",".","m","e">>, <<"4","3">>)>>,
    <<<<"t","v">>, WhoisServer(<<"w","h","o","i","s",".","n","i","c",".","t","v">>, <<"4","3">>)>>,
    <<<<"c","c">>, WhoisServer(<<"w","h","o","i","s",".","n","i","c",".","c","c">>, <<"4","3">>)>>,
    <<<<"a","p","p">>, WhoisServer(<<"w","h","o","i","s",".","n","i","c",".","g","o","o","g","l","e">>, <<"4","3">>)>>,
    <<<<"d","e","v">>, WhoisServer(<<"w","h","o","i","s",".","n","i","c",".","g","o","o","g","l","e">>, <<"4","3">>)>>,
    <<<<"a","i">>, WhoisServer(<<"w","h","o","i","s",".","n","i","c",".","a","i">>, <<"4","3">>)>>,
    <<<<"c","o">>, WhoisServer(<<"w","h","o","i","s",".","n","i","c",".","c","o">>, <<"4","3">>)>>,
    <<<<"a","s","i","a">>, WhoisServer(<<"w","h","o","i","s",".","n","i","c",".","a","s","i","a">>, <<"4","3">>)>>,
    <<<<"m","o","b","i">>, WhoisServer(<<"w","h","o","i","s",".","n","i","c",".","m","o","b","i">>, <<"4","3">>)>>,
    <<<<"x","x","x">>, WhoisServer(<<"w","h","o","i","s",".","n","i","c",".","x","x","x">>, <<"4","3">>)>>,
    <<<<"t","e","l">>, WhoisServer(<<"w","h","o","i","s",".","n","i","c",".","t","e","l">>, <<"4","3">>)>>,
    <<<<"i","n">>, WhoisServer(<<"w","h","o","i","s",".","r","e","g","i","s","t","r","y",".","i","n">>, <<"4","3">>)>>,
    <<<<"c","n">>, WhoisServer(<<"w","h","o","i","s",".","c","n","n","i","c",".","c","n">>, <<"4","3">>)>>,
    <<<<"b","r">>, WhoisServer(<<"w","h","o","i","s",".","r","e","g","i","s","t","r","o",".","b","r">>, <<"4","3">>)>>,
    <<<<"m","x">>, WhoisServer(<<"w","h","o","i","s",".","m","x">>, <<"4","3">>)>>,
    <<<<"s","e">>, WhoisServer(<<"w","h","o","i","s",".","i","i","s",".","s","e">>, <<"4","3">>)>>,
    <<<<"b","e">>, WhoisServer(<<"w","h","o","i","s",".","d","n","s",".","b","e">>, <<"4","3">>)>>,
    <<<<"a","t">>, WhoisServer(<<"w","h","o","i","s",".","n","i","c",".","a","t">>, <<"4","3">>)>>,
    <<<<"d","k">>, WhoisServer(<<"w","h","o","i","s",".","d","k","-","h","o","s","t","m","a","s","t","e","r",".","d","k">>, <<"4","3">>)>>,
    <<<<"f","i">>, WhoisServer(<<"w","h","o","i","s",".","f","i">>, <<"4","3">>)>>,
    <<<<"i","s">>, WhoisServer(<<"w","h","o","i","s",".","i","s","n","i","c",".","i","s">>, <<"4","3">>)>>,
    <<<<"c","z">>, WhoisServer(<<"w","h","o","i","s",".","n","i","c",".","c","z">>, <<"4","3">>)>>,
    <<<<"p","l">>, WhoisServer(<<"w","h","o","i","s",".","d","n","s",".","p","l">>, <<"4","3">>)>>,
    <<<<"d","e","f","a","u","l","t">>, WhoisServer(<<"w","h","o","i","s",".","i","a","n","a",".","o","r","g">>, <<"4","3">>)>>
    })

\* the 10 of "10 * time.Second", in ticks of the model's clock
DefaultTimeout == 10

Config(timeout, followReferral, customServers) ==
    [Timeout |-> timeout, FollowReferral |-> followReferral, CustomServers |-> customServers]

\* a nil *Config
NilConfig == [nil |-> TRUE]

DefaultConfig == Config(DefaultTimeout, TRUE, EmptyMap)

\* servers[k] = v
MapSet(m, k, v) == [x \in DOMAIN m \cup {k} |-> IF x = k THEN v ELSE m[x]]

\* for k, v := range src { dst[k] = v }, keys being those still to visit
RECURSIVE CopyEntries(_, _, _)
CopyEntries(dst, src, keys) ==
    IF keys = {} THEN dst
    ELSE LET k == CHOOSE x \in keys : TRUE
         IN With(MapSet(dst, k, src[k]), LAMBDA m : CopyEntries(m, src, keys \ {k}))

\* NewClient copying the built-in table over the caller's entries
NewClient_BuiltInWins(config) ==
    LET cfg == IF config = NilConfig THEN DefaultConfig ELSE config
        custom == CopyEntries(EmptyMap, cfg.CustomServers, DOMAIN cfg.CustomServers)
    IN [timeout |-> IF cfg.Timeout = 0 THEN DefaultTimeout ELSE cfg.Timeout,
        followReferral |-> cfg.FollowReferral,
        servers |-> CopyEntries(custom, DefaultWhoisServers, DOMAIN DefaultWhoisServers)]

\* the Client NewClient builds: a fresh map that receives the built-in table
\* and then the caller's CustomServers
NewClient(config) ==
    LET cfg == IF config = NilConfig THEN DefaultConfig ELSE config
        builtIn == CopyEntries(EmptyMap, DefaultWhoisServers, DOMAIN DefaultWhoisServers)
    IN [timeout |-> IF cfg.Timeout = 0 THEN DefaultTimeout ELSE cfg.Timeout,
        followReferral |-> cfg.FollowReferral,
        servers |-> CopyEntries(builtIn, cfg.CustomServers, DOMAIN cfg.CustomServers)]

(***************************************************************************)
(* Client.getWhoisServer                                                   *)
(***************************************************************************)
\* a nil error
NilError == [nil |-> TRUE, msg |-> "", arg |-> <<>>, cause |-> ""]

\* fmt.Errorf(msg, arg, cause): a non-nil error
Errorf(msg, arg, cause) == [nil |-> FALSE, msg |-> msg, arg |-> arg, cause |-> cause]

\* err.Error(): the text of a non-nil error, never the empty string
ErrorText(e) == <<e.msg, e.arg, e.cause>>

ZeroServer == WhoisServer(<<>>, <<>>)

\* getWhoisServer with the last label tried before the last two labels
getWhoisServer_BareFirst(servers, domain) ==
    LET parts == Split(domain, <<".">>)
        n == Len(parts)
        tld2 == Join(SubSeq(parts, n - 1, n), <<".">>)
        tld == parts[n]
    IN IF n < 2
       THEN [server |-> ZeroServer, err |-> Errorf("invalid domain format", domain, "")]
       ELSE IF tld \in DOMAIN servers
       THEN [server |-> servers[tld], err |-> NilError]
       ELSE IF n >= 3 /\ tld2 \in DOMAIN servers
       THEN [server |-> servers[tld2], err |-> NilError]
       ELSE [server |-> MapGet(servers, <<"d","e","f","a","u","l","t">>, ZeroServer), err |-> NilError]

\* getWhoisServer without the fallback to the default entry
getWhoisServer_NoDefault(servers, domain) ==
    LET parts == Split(domain, <<".">>)
        n == Len(parts)
        tld2 == Join(SubSeq(parts, n - 1, n), <<".">>)
        tld == parts[n]
    IN IF n < 2
       THEN [server |-> ZeroServer, err |-> Errorf("invalid domain format", domain, "")]
       ELSE IF n >= 3 /\ tld2 \in DOMAIN servers
       THEN [server |-> servers[tld2], err |-> NilError]
       ELSE IF tld \in DOMAIN servers
       THEN [server |-> servers[tld], err |-> NilError]
       ELSE [server |-> ZeroServer, err |-> Errorf("invalid domain format", domain, "")]

\* getWhoisServer without the check of the number of labels
getWhoisServer_AnyLabels(servers, domain) ==
    LET parts == Split(domain, <<".">>)
        n == Len(parts)
        tld2 == Join(SubSeq(parts, n - 1, n), <<".">>)
        tld == parts[n]
    IN IF n >= 3 /\ tld2 \in DOMAIN servers
       THEN [server |-> servers[tld2], err |-> NilError]
       ELSE IF tld \in DOMAIN servers
       THEN [server |-> servers[tld], err |-> NilError]
       ELSE [server |-> MapGet(servers, <<"d","e","f","a","u","l","t">>, ZeroServer), err |-> NilError]

getWhoisServer(servers, domain) ==
    LET parts == Split(domain, <<".">>)
        n == Len(parts)
        tld2 == Join(SubSeq(parts, n - 1, n), <<".">>)
        tld == parts[n]
    IN IF n < 2
       THEN [server |-> ZeroServer, err |-> Errorf("invalid domain format", domain, "")]
       ELSE IF n >= 3 /\ tld2 \in DOMAIN servers
       THEN [server |-> servers[tld2], err |-> NilError]
       ELSE IF tld \in DOMAIN servers
       THEN [server |-> servers[tld], err |-> NilError]
       ELSE [server |-> MapGet(servers, <<"d","e","f","a","u","l","t">>, ZeroServer), err |-> NilError]

(***************************************************************************)
(* Client.extractReferralServer                                            *)
(***************************************************************************)
\* ReferralOfLine taking a label anywhere in the line
ReferralOfLine_AnyPosition(rawLine) ==
    LET line == TrimSpace(rawLine)
        lower == ToLower(line)
        parts == SplitN2(line, <<":">>)
        server == TrimPrefix(TrimPrefix(TrimPrefix(TrimSpace(parts[2]),
                      <<"w","h","o","i","s",":","/","/">>), <<"h","t","t","p",":","/","/">>), <<"h","t","t","p","s",":","/","/">>)
    IN IF /\ \/ Contains(lower, <<"w","h","o","i","s"," ","s","e","r","v","e","r",":">>)
             \/ Contains(lower, <<"r","e","f","e","r","r","a","l"," ","u","r","l",":">>)
             \/ Contains(lower, <<"r","e","f","e","r",":">>)
          /\ Len(parts) = 2
          /\ server # <<>>
          /\ server # <<"w","h","o","i","s",".","i","a","n","a",".","o","r","g">>
       THEN server
       ELSE <<>>

\* the server a line of the response refers to, or "" when it refers to none
ReferralOfLine(rawLine) ==
    LET line == TrimSpace(rawLine)
        lower == ToLower(line)
        parts == SplitN2(line, <<":">>)
        server == TrimPrefix(TrimPrefix(TrimPrefix(TrimSpace(parts[2]),
                      <<"w","h","o","i","s",":","/","/">>), <<"h","t","t","p",":","/","/">>), <<"h","t","t","p","s",":","/","/">>)
    IN IF /\ \/ HasPrefix(lower, <<"w","h","o","i","s"," ","s","e","r","v","e","r",":">>)
             \/ HasPrefix(lower, <<"r","e","f","e","r","r","a","l"," ","u","r","l",":">>)
             \/ HasPrefix(lower, <<"r","e","f","e","r",":">>)
          /\ Len(parts) = 2
          /\ server # <<>>
          /\ server # <<"w","h","o","i","s",".","i","a","n","a",".","o","r","g">>
       THEN server
       ELSE <<>>

RECURSIVE FirstReferral(_, _)
FirstReferral(lines, i) ==
    IF i > Len(lines) THEN <<>>
    ELSE IF ReferralOfLine(lines[i]) # <<>> THEN ReferralOfLine(lines[i])
    ELSE FirstReferral(lines, i + 1)

extractReferralServer(response) == FirstReferral(Split(response, <<"\n">>), 1)

(***************************************************************************)
(* isValidEmail                                                            *)
(***************************************************************************)
MinEmailLen == 3

MaxEmailLen == 254

\* isValidEmail without the test for a "." after the "@"
isValidEmail_NoDot(email) ==
    LET parts == Split(email, <<"@">>)
    IN /\ ~(Len(email) < MinEmailLen \/ Len(email) > MaxEmailLen)
       /\ Len(parts) = 2
       /\ ~(Len(parts[1]) = 0 \/ Len(parts[2]) = 0)

isValidEmail(email) ==
    LET parts == Split(email, <<"@">>)
    IN /\ ~(Len(email) < MinEmailLen \/ Len(email) > MaxEmailLen)
       /\ Len(parts) = 2
       /\ ~(Len(parts[1]) = 0 \/ Len(parts[2]) = 0)
       /\ Contains(parts[2], <<".">>)

(***************************************************************************)
(* WhoisResult and Client.parseResponse                                    *)
(***************************************************************************)
\* the *WhoisResult Lookup allocates: every field but Domain, Timestamp and
\* ParsedData (an empty map) has its zero value
NewResult(domain, timestamp) ==
    [Domain |-> domain, RawResponse |-> <<>>, Server |-> <<>>,
     Timestamp |-> timestamp, Error |-> <<>>, ParsedData |-> EmptyMap,
     Registrar |-> <<>>, CreatedDate |-> <<>>, ExpiryDate |-> <<>>,
     UpdatedDate |-> <<>>, NameServers |-> <<>>, Status |-> <<>>, Emails |-> <<>>]

\* a nil *WhoisResult
NilResult == [nil |-> TRUE]

\* a scalar field that every matching line overwrites
ScalarField_LastWins(current, lower, parts, labels) ==
    IF /\ \E l \in labels : Contains(lower, l)
       /\ Len(parts) = 2
    THEN TrimSpace(parts[2])
    ELSE current

\* the value a scalar field takes on a line: filled from the text after the
\* line's first colon when the field is still empty and a label occurs
ScalarField(current, lower, parts, labels) ==
    IF /\ current = <<>>
       /\ \E l \in labels : Contains(lower, l)
       /\ Len(parts) = 2
    THEN TrimSpace(parts[2])
    ELSE current

\* the name server a line holds: lowercased, cut at the first space
NameServerOf(parts) ==
    LET ns == ToLower(TrimSpace(parts[2]))
        idx == Index(ns, <<" ">>)
    IN IF idx > 0 THEN SubSeq(ns, 1, idx) ELSE ns

\* a line counted as a status line only under its longer label
IsStatusLine_DomainOnly(lower) == Contains(lower, <<"d","o","m","a","i","n"," ","s","t","a","t","u","s",":">>)

\* whether a lowercased line holds a status label
IsStatusLine(lower) ==
    Contains(lower, <<"s","t","a","t","u","s",":">>) \/ Contains(lower, <<"d","o","m","a","i","n"," ","s","t","a","t","u","s",":">>)

\* the loop over the words of a line, appending an address each time it occurs
RECURSIVE EmailWords_NoDedup(_, _, _)
EmailWords_NoDedup(acc, words, i) ==
    IF i > Len(words) THEN acc
    ELSE LET word == words[i]
             email == Trim(word, {",", ":", ";", "(", ")", "<", ">", "[", "]"})
         IN IF /\ Contains(word, <<"@">>) /\ Contains(word, <<".">>)
               /\ isValidEmail(email)
            THEN EmailWords_NoDedup([acc EXCEPT !.emails = Append(@, email),
                                                !.emailMap = @ \cup {email}], words, i + 1)
            ELSE EmailWords_NoDedup(acc, words, i + 1)

\* the loop over the words of a line that contains "@"
RECURSIVE EmailWords(_, _, _)
EmailWords(acc, words, i) ==
    IF i > Len(words) THEN acc
    ELSE LET word == words[i]
             email == Trim(word, {",", ":", ";", "(", ")", "<", ">", "[", "]"})
         IN IF /\ Contains(word, <<"@">>) /\ Contains(word, <<".">>)
               /\ email \notin acc.emailMap
               /\ isValidEmail(email)
            THEN EmailWords([acc EXCEPT !.emails = Append(@, email),
                                        !.emailMap = @ \cup {email}], words, i + 1)
            ELSE EmailWords(acc, words, i + 1)

\* one iteration of parseResponse's loop over the lines
ParseLine(acc, rawLine) ==
    LET line == TrimSpace(rawLine)
        lower == ToLower(line)
        parts == SplitN2(line, <<":">>)
        isNS == \/ Contains(lower, <<"n","a","m","e"," ","s","e","r","v","e","r",":">>)
                \/ Contains(lower, <<"n","s","e","r","v","e","r",":">>)
                \/ Contains(lower, <<"n","a","m","e","s","e","r","v","e","r",":">>)
        addNS == isNS /\ Len(parts) = 2 /\ NameServerOf(parts) \notin acc.nsMap
        addStatus == IsStatusLine(lower) /\ Len(parts) = 2 /\ TrimSpace(parts[2]) # <<>>
        a1 == [acc EXCEPT
                 !.Registrar = ScalarField(@, lower, parts,
                     {<<"r","e","g","i","s","t","r","a","r",":">>, <<"r","e","g","i","s","t","r","a","r"," ","n","a","m","e",":">>}),
                 !.CreatedDate = ScalarField(@, lower, parts,
                     {<<"c","r","e","a","t","i","o","n"," ","d","a","t","e",":">>, <<"c","r","e","a","t","e","d",":">>, <<"r","e","g","i","s","t","e","r","e","d",":">>}),
                 !.ExpiryDate = ScalarField(@, lower, parts,
                     {<<"e","x","p","i","r","y"," ","d","a","t","e",":">>, <<"e","x","p","i","r","a","t","i","o","n"," ","d","a","t","e",":">>, <<"e","x","p","i","r","e","s",":">>}),
                 !.UpdatedDate = ScalarField(@, lower, parts,
                     {<<"u","p","d","a","t","e","d"," ","d","a","t","e",":">>, <<"l","a","s","t"," ","u","p","d","a","t","e","d",":">>, <<"m","o","d","i","f","i","e","d",":">>}),
                 !.nameServers = IF addNS THEN Append(@, NameServerOf(parts)) ELSE @,
                 !.nsMap = IF addNS THEN @ \cup {NameServerOf(parts)} ELSE @,
                 !.status = IF addStatus THEN Append(@, TrimSpace(parts[2])) ELSE @]
    IN IF line = <<>> \/ HasPrefix(line, <<"%">>) \/ HasPrefix(line, <<"#">>)
       THEN acc
       ELSE IF Contains(line, <<"@">>)
       THEN EmailWords(a1, Fields(line), 1)
       ELSE a1

RECURSIVE ParseLines(_, _, _)
ParseLines(acc, lines, i) ==
    IF i > Len(lines) THEN acc
    ELSE ParseLines(ParseLine(acc, lines[i]), lines, i + 1)

\* ParsedData filled before the lists are stored in the result
StoreParsedData_ScalarsOnly(result) ==
    [result EXCEPT !.ParsedData =
        MapSet(MapSet(MapSet(MapSet(MapSet(MapSet(MapSet(@,
            "registrar", result.Registrar),
            "created_date", result.CreatedDate),
            "expiry_date", result.ExpiryDate),
            "updated_date", result.UpdatedDate),
            "name_servers", <<>>),
            "status", <<>>),
            "emails", <<>>)]

\* the assignments to result.ParsedData that end parseResponse
StoreParsedData(result) ==
    [result EXCEPT !.ParsedData =
        MapSet(MapSet(MapSet(MapSet(MapSet(MapSet(MapSet(@,
            "registrar", result.Registrar),
            "created_date", result.CreatedDate),
            "expiry_date", result.ExpiryDate),
            "updated_date", result.UpdatedDate),
            "name_servers", result.NameServers),
            "status", result.Status),
            "emails", result.Emails)]

\* the result after c.parseResponse(result)
parseResponse(result) ==
    LET acc0 == [Registrar |-> result.Registrar, CreatedDate |-> result.CreatedDate,
                 ExpiryDate |-> result.ExpiryDate, UpdatedDate |-> result.UpdatedDate,
                 nameServers |-> <<>>, status |-> <<>>, emails |-> <<>>,
                 emailMap |-> {}, nsMap |-> {}]
    IN With(ParseLines(acc0, Split(result.RawResponse, <<"\n">>), 1), LAMBDA acc :
         StoreParsedData(
           [result EXCEPT
              !.Registrar = acc.Registrar,
              !.CreatedDate = acc.CreatedDate,
              !.ExpiryDate = acc.ExpiryDate,
              !.UpdatedDate = acc.UpdatedDate,
              !.NameServers = acc.nameServers,
              !.Status = acc.status,
              !.Emails = acc.emails]))

(***************************************************************************)
(* bufio.Scanner with ScanLines, as Client.query's read loop uses it       *)
(***************************************************************************)
\* bufio's dropCR
DropCR(data) ==
    IF Len(data) > 0 /\ data[Len(data)] = "\r"
    THEN SubSeq(data, 1, Len(data) - 1)
    ELSE data

\* the next token of the bytes still to come, and the bytes after it: a line
\* up to its "\n", or at the end of the stream the unterminated last line
ScanLine(data) ==
    LET i == Index(data, <<"\n">>)
    IN IF i >= 0
       THEN [token |-> DropCR(SubSeq(data, 1, i)), rest |-> SubSeq(data, i + 2, Len(data))]
       ELSE [token |-> DropCR(data), rest |-> <<>>]

(***************************************************************************)
(* Errors, contexts and addresses                                          *)
(***************************************************************************)
\* net.JoinHostPort
JoinHostPort(host, port) ==
    IF Contains(host, <<":">>) \/ Contains(host, <<"%">>)
    THEN <<"[">> \o host \o <<"]",":">> \o port
    ELSE host \o <<":">> \o port

\* fmt.Sprintf("%s:%s", server.Host, server.Port)
ServerString(server) == server.Host \o <<":">> \o server.Port

NoDeadline == -1

\* a context.Context: its deadline (NoDeadline when it has none), whether the
\* caller holds a cancel function for it, and whether it was cancelled
Context(deadline, cancellable) ==
    [deadline |-> deadline, cancellable |-> cancellable, cancelled |-> FALSE]

\* ctx.Done() is closed: cancelled, or its deadline has passed
CtxDone(c, t) == c.cancelled \/ (c.deadline # NoDeadline /\ t >= c.deadline)

\* ctx.Err() of a context that is done
CtxErr(c) == IF c.cancelled THEN "context canceled" ELSE "context deadline exceeded"

(***************************************************************************)
(* The inputs of the model                                                 *)
(***************************************************************************)
\* the domains Lookup is called with
Domains == {
    <<"i","n","v","a","l","i","d">>,
    <<"e","x","a","m","p","l","e",".","c","o","m">>,
    <<" ","H","T","T","P",":","/","/","W","W","W",".","E","x","a","m","p","l","e",".","C","O","M"," ">>,
    <<"c","o",".","u","k">>,
    <<"e","x","a","m","p","l","e",".","c","o",".","u","k">>,
    <<"e","x","a","m","p","l","e",".","z","z">> }

\* the configurations NewClient is called with
Configs == {
    NilConfig,
    Config(0, TRUE, EmptyMap),
    Config(1, FALSE, EmptyMap),
    Config(2, TRUE, MapOf({
        <<<<"c","o",".","u","k">>, WhoisServer(<<"w","h","o","i","s",".","t","e","s","t",".","c","o","m">>, <<"4","3">>)>>,
        <<<<"t","e","s","t">>, WhoisServer(<<"w","h","o","i","s",".","n","i","c",".","t","e","s","t">>, <<"4","3","4","3">>)>>,
        <<<<"d","e","f","a","u","l","t">>, WhoisServer(<<"w","h","o","i","s",".","e","x","a","m","p","l","e",".","c","o","m">>, <<"4","3">>)>>})) }

\* the contexts Lookup is called with: nil, context.Background(), a
\* context.WithCancel and a context.WithTimeout of one tick
NilCtx == [nil |-> TRUE]

CallerContexts(t) == {
    NilCtx,
    Context(NoDeadline, FALSE),
    Context(NoDeadline, TRUE),
    Context(t + 1, TRUE) }

\* what a WHOIS server sends before it closes the connection
WireResponses == {
    <<>>,
    <<"S","t","a","t","u","s",":"," ","o","k","\n">>,
    <<"W","h","o","i","s"," ","S","e","r","v","e","r",":"," ","w","h","o","i","s",".","e","x","a","m","p","l","e",".","c","o","m","\n">>,
    <<"r","e","f","e","r",":"," ","w","h","o","i","s",".","i","a","n","a",".","o","r","g","\r","\n","S","t","a","t","u","s",":"," ","o","k">>,
    <<"R","e","f","e","r",":"," ","w","h","o","i","s",".","v","e","r","i","s","i","g","n","-","g","r","s",".","c","o","m","\n">>,
    <<"R","e","g","i","s","t","r","a","r",":"," ","E","x","a","m","p","l","e"," ","I","n","c",".","\r","\n","N","a","m","e"," ","S","e","r","v","e","r",":"," ","N","S","1",".","E","X","A","M","P","L","E",".","C","O","M"," ","1","9","2",".","0",".","2",".","1","\r","\n","A","d","m","i","n"," ","E","m","a","i","l",":"," ","<","a","d","m","i","n","@","e","x","a","m","p","l","e",".","c","o","m",">","\r","\n">> }

(***************************************************************************)
(* The state                                                               *)
(***************************************************************************)
VARIABLES
    config,      \* the *Config NewClient was called with
    client,      \* the *Client: timeout, followReferral, servers
    now,         \* the clock: the time since the call in progress began
    pc,          \* where the Lookup call is: idle, dial, write, read, done
    ctx,         \* Lookup's ctx
    domain,      \* Lookup's normalized domain
    result,      \* Lookup's *WhoisResult
    err,         \* the error Lookup returns
    stage,       \* the query in progress: primary or referral
    server,      \* the WhoisServer of the query in progress
    response,    \* Lookup's response: what the primary query returned
    conn,        \* the query's connection: deadline, bytes the server sends,
                 \* bytes still to come, the query's builder
    dialStart,   \* when the query in progress began to dial
    attempts,    \* the addresses dialed during this call, in order
    lastQuery,   \* what the last query of this call returned
    cancelledIn, \* the phase the call was in when its ctx was cancelled
    calls,       \* concurrent Lookup calls on the client: each goroutine's locals
    heap,        \* the WhoisResults those calls allocated
    called,      \* the function called on its own, "" before the call
    arg,         \* its argument
    ret,         \* what it returned
    allCall,     \* a call of lookup.Client.LookupAll: its locals, the lookups made
    cli          \* a run of the command: its options, the lookups made, its exit

\* the state of the goroutines that call Lookup concurrently
goroutines == <<calls, heap>>

\* the state of a function called on its own
functionCall == <<called, arg, ret>>

\* the state of the single timed Lookup call
timedCall == <<now, pc, ctx, domain, result, err, stage, server, response,
               conn, dialStart, attempts, lastQuery, cancelledIn>>

vars == <<config, client, timedCall, goroutines, functionCall, allCall, cli>>

\* what the timed Lookup call leaves alone
outsideLookup == <<goroutines, functionCall, allCall, cli>>

\* the goroutines that call Lookup concurrently, and the cells of the heap
CallIds == 1..NumCalls

Cells == 1..NumCalls

NilPointer == 0

\* what the network does to one query: the connection fails with cause, or
\* (cause "") the server sends wire and closes the connection
Reply(wire, cause) == [nil |-> FALSE, wire |-> wire, cause |-> cause]

\* no query was made
NilReply == [nil |-> TRUE]

\* a goroutine that is not in a Lookup call
IdleCall ==
    [pc |-> "idle", domain |-> <<>>, result |-> NilPointer, err |-> NilError,
     response |-> <<>>, server |-> ZeroServer, primary |-> NilReply, referral |-> NilReply]

\* no goroutine is in a call, and nothing is allocated
NoGoroutines ==
    /\ calls = [i \in CallIds |-> IdleCall]
    /\ heap = [c \in Cells |-> NilResult]

NoConn == [deadline |-> NoDeadline, wire |-> <<>>, rx |-> <<>>, builder |-> <<>>]

NoQuery == [returned |-> FALSE, response |-> <<>>, err |-> NilError]

\* no Lookup call is in progress
NoTimedCall ==
    /\ now = 0
    /\ pc = "idle"
    /\ ctx = Context(NoDeadline, FALSE)
    /\ domain = <<>>
    /\ result = NilResult
    /\ err = NilError
    /\ stage = "none"
    /\ server = ZeroServer
    /\ response = <<>>
    /\ conn = NoConn
    /\ dialStart = 0
    /\ attempts = <<>>
    /\ lastQuery = NoQuery
    /\ cancelledIn = "none"

\* no function is called on its own
NoFunctionCall ==
    /\ called = ""
    /\ arg = <<>>
    /\ ret = <<>>

\* LookupAll is not called
NoLookupAll == allCall = [pc |-> "idle"]

\* the command is not run
NoCommand == cli = [pc |-> "none"]

Init ==
    /\ config \in Configs
    /\ client = NewClient(config)
    /\ NoTimedCall
    /\ NoGoroutines
    /\ NoFunctionCall
    /\ NoLookupAll
    /\ NoCommand

(***************************************************************************)
(* Client.Lookup                                                           *)
(***************************************************************************)
\* the domain as Lookup normalizes it
NormalizeDomain(d) ==
    TrimPrefix(TrimPrefix(TrimPrefix(ToLower(TrimSpace(d)),
        <<"h","t","t","p",":","/","/">>), <<"h","t","t","p","s",":","/","/">>), <<"w","w","w",".">>)

\* Lookup's ctx: context.WithTimeout(context.Background(), c.timeout) for nil
LookupContext(c, timeout, t) ==
    IF c = NilCtx THEN Context(t + timeout, FALSE) ELSE c

\* Lookup returning no result with its error
FailedResult_Nil(res, e) == NilResult

\* the result Lookup returns with a non-nil error
FailedResult(res, e) == [res EXCEPT !.Error = ErrorText(e)]

\* the replacement test taking a failed referral query for a reason to replace
ReferralReplaces_OrFailed(referralErr, referralResponse, primaryResponse) ==
    ~referralErr.nil \/ Len(referralResponse) > Len(primaryResponse)

\* the replacement test with >= for >
ReferralReplaces_NotShorter(referralErr, referralResponse, primaryResponse) ==
    referralErr.nil /\ Len(referralResponse) >= Len(primaryResponse)

\* whether the referral response replaces the primary one
ReferralReplaces(referralErr, referralResponse, primaryResponse) ==
    referralErr.nil /\ Len(referralResponse) > Len(primaryResponse)

\* the replacement that leaves Server as it was
AfterReferral_KeepsServer(res, referralServer, referralErr, referralResponse, primaryResponse) ==
    IF ReferralReplaces(referralErr, referralResponse, primaryResponse)
    THEN [res EXCEPT !.RawResponse = referralResponse]
    ELSE res

\* a failed referral query recorded in the result's Error
AfterReferral_RecordsFailure(res, referralServer, referralErr, referralResponse, primaryResponse) ==
    IF ReferralReplaces(referralErr, referralResponse, primaryResponse)
    THEN [res EXCEPT !.RawResponse = referralResponse,
                     !.Server = referralServer \o <<":","4","3">>]
    ELSE IF referralErr.nil THEN res
    ELSE [res EXCEPT !.Error = ErrorText(referralErr)]

\* the result after the referral query returned
AfterReferral(res, referralServer, referralErr, referralResponse, primaryResponse) ==
    IF ReferralReplaces(referralErr, referralResponse, primaryResponse)
    THEN [res EXCEPT !.RawResponse = referralResponse,
                     !.Server = referralServer \o <<":","4","3">>]
    ELSE res

\* Lookup querying every referral server it finds, enabled or not
FollowsReferral_Whenever(followReferral, referralServer) == referralServer # <<>>

\* whether Lookup makes a referral query after its primary query
FollowsReferral(followReferral, referralServer) ==
    followReferral /\ referralServer # <<>>

\* the result of a Lookup that did not fail: the retained response, parsed
FinishLookup(res) == parseResponse(res)

\* Lookup up to its first query: normalize, allocate the result, pick the server
StartLookup(rawDomain, callerCtx) ==
    LET d == NormalizeDomain(rawDomain)
        res == NewResult(d, now)
        sel == getWhoisServer(client.servers, d)
    IN /\ pc = "idle"
       /\ ctx' = LookupContext(callerCtx, client.timeout, now)
       /\ domain' = d
       /\ IF ~sel.err.nil
          THEN /\ result' = FailedResult(res, sel.err)
               /\ err' = sel.err
               /\ pc' = "done"
               /\ UNCHANGED <<stage, server, dialStart, attempts>>
          ELSE /\ result' = [res EXCEPT !.Server = ServerString(sel.server)]
               /\ err' = NilError
               /\ pc' = "dial"
               /\ stage' = "primary"
               /\ server' = sel.server
               /\ dialStart' = now
               /\ attempts' = <<JoinHostPort(sel.server.Host, sel.server.Port)>>
       /\ UNCHANGED <<outsideLookup, config, client, now, response, conn, lastQuery, cancelledIn>>

\* Lookup from the return of a query to its next query or to its own return
QueryReturns(resp, qerr) ==
    /\ lastQuery' = [returned |-> TRUE, response |-> resp, err |-> qerr]
    /\ IF stage = "primary"
       THEN IF ~qerr.nil
            THEN /\ result' = FailedResult(result, qerr)
                 /\ err' = qerr
                 /\ pc' = "done"
                 /\ UNCHANGED <<stage, server, response, dialStart, attempts>>
            ELSE LET res == [result EXCEPT !.RawResponse = resp]
                     referralServer == extractReferralServer(resp)
                 IN /\ response' = resp
                    /\ IF FollowsReferral(client.followReferral, referralServer)
                       THEN /\ result' = res
                            /\ pc' = "dial"
                            /\ stage' = "referral"
                            /\ server' = WhoisServer(referralServer, <<"4","3">>)
                            /\ dialStart' = now
                            /\ attempts' = Append(attempts, JoinHostPort(referralServer, <<"4","3">>))
                            /\ UNCHANGED err
                       ELSE /\ result' = FinishLookup(res)
                            /\ err' = NilError
                            /\ pc' = "done"
                            /\ UNCHANGED <<stage, server, dialStart, attempts>>
       ELSE /\ result' = FinishLookup(AfterReferral(result, server.Host, qerr, resp, response))
            /\ err' = NilError
            /\ pc' = "done"
            /\ UNCHANGED <<stage, server, response, dialStart, attempts>>
    /\ UNCHANGED <<outsideLookup, config, client, now, ctx, domain, cancelledIn>>

(***************************************************************************)
(* Client.query                                                            *)
(***************************************************************************)
\* when DialContext gives up: the dialer's Timeout, or the context's deadline
DialDeadline ==
    IF ctx.deadline # NoDeadline /\ ctx.deadline < dialStart + client.timeout
    THEN ctx.deadline
    ELSE dialStart + client.timeout

\* the deadline query sets on the connection
ConnDeadline(c, timeout, t) ==
    IF c.deadline # NoDeadline THEN c.deadline ELSE t + timeout

\* query returning what it has read together with the read error
ReadError_KeepsPartial(builder, cause) ==
    [response |-> builder, err |-> Errorf("error reading response", <<>>, cause)]

\* what query returns when its read loop ends with an error
ReadError(builder, cause) ==
    [response |-> <<>>, err |-> Errorf("error reading response", <<>>, cause)]

\* the connection is established; wire is what the server is going to send
DialOk(wire) ==
    /\ pc = "dial"
    /\ ~CtxDone(ctx, now)
    /\ now < DialDeadline
    /\ pc' = "write"
    /\ conn' = [deadline |-> ConnDeadline(ctx, client.timeout, now),
                wire |-> wire, rx |-> wire, builder |-> <<>>]
    /\ UNCHANGED <<outsideLookup, config, client, now, ctx, domain, result, err, stage, server, response,
                   dialStart, attempts, lastQuery, cancelledIn>>

\* DialContext fails: refused, timed out, or the context is done
DialFail(cause) ==
    /\ pc = "dial"
    /\ \/ cause = "connection refused"
       \/ cause = "i/o timeout" /\ now >= dialStart + client.timeout
       \/ cause = CtxErr(ctx) /\ CtxDone(ctx, now)
    /\ UNCHANGED conn
    /\ QueryReturns(<<>>, Errorf("failed to connect to WHOIS server",
                                 JoinHostPort(server.Host, server.Port), cause))

\* conn.Write sent the query
WriteOk ==
    /\ pc = "write"
    /\ now < conn.deadline
    /\ pc' = "read"
    /\ UNCHANGED <<outsideLookup, config, client, now, ctx, domain, result, err, stage, server, response,
                   conn, dialStart, attempts, lastQuery, cancelledIn>>

\* conn.Write fails
WriteFail(cause) ==
    /\ pc = "write"
    /\ \/ cause = "broken pipe"
       \/ cause = "i/o timeout" /\ now >= conn.deadline
    /\ UNCHANGED conn
    /\ QueryReturns(<<>>, Errorf("failed to send query", <<>>, cause))

\* one iteration of the read loop: a line is appended to the builder
ReadLine ==
    /\ pc = "read"
    /\ now < conn.deadline
    /\ conn.rx # <<>>
    /\ conn' = [conn EXCEPT !.rx = ScanLine(conn.rx).rest,
                            !.builder = @ \o ScanLine(conn.rx).token \o <<"\n">>]
    /\ UNCHANGED <<outsideLookup, config, client, now, pc, ctx, domain, result, err, stage, server,
                   response, dialStart, attempts, lastQuery, cancelledIn>>

\* the server closed the connection: query returns what it has read
ReadEOF ==
    /\ pc = "read"
    /\ now < conn.deadline
    /\ conn.rx = <<>>
    /\ UNCHANGED conn
    /\ QueryReturns(conn.builder, NilError)

\* the read loop ends with an error: the connection broke, or its deadline passed
ReadFail(cause) ==
    /\ pc = "read"
    /\ \/ cause = "connection reset by peer"
       \/ cause = "i/o timeout" /\ now >= conn.deadline
    /\ UNCHANGED conn
    /\ QueryReturns(ReadError(conn.builder, cause).response,
                    ReadError(conn.builder, cause).err)

(***************************************************************************)
(* The environment: the caller and the clock                               *)
(***************************************************************************)
\* the caller cancels the context it passed to Lookup
Cancel ==
    /\ pc \in {"dial", "write", "read"}
    /\ ctx.cancellable
    /\ ~ctx.cancelled
    /\ ctx' = [ctx EXCEPT !.cancelled = TRUE]
    /\ cancelledIn' = pc
    /\ UNCHANGED <<outsideLookup, config, client, now, pc, domain, result, err, stage, server, response,
                   conn, dialStart, attempts, lastQuery>>

\* time passes, unless an operation in progress is due to time out or to be
\* aborted: DialContext returns as soon as its context is done or its deadline
\* has passed, a Read or Write as soon as the connection's deadline has passed
Tick ==
    /\ now < MaxTime
    /\ pc \in {"dial", "write", "read"}
    /\ pc = "dial" => ~CtxDone(ctx, now) /\ now < DialDeadline
    /\ pc \in {"write", "read"} => now < conn.deadline
    /\ now' = now + 1
    /\ UNCHANGED <<outsideLookup, config, client, pc, ctx, domain, result, err, stage, server, response,
                   conn, dialStart, attempts, lastQuery, cancelledIn>>

\* the caller has its result; the client is ready for the next call
Return ==
    /\ pc = "done"
    /\ pc' = "idle"
    /\ ctx' = Context(NoDeadline, FALSE)
    /\ domain' = <<>>
    /\ result' = NilResult
    /\ err' = NilError
    /\ stage' = "none"
    /\ server' = ZeroServer
    /\ response' = <<>>
    /\ conn' = NoConn
    /\ dialStart' = 0
    /\ attempts' = <<>>
    /\ lastQuery' = NoQuery
    /\ cancelledIn' = "none"
    /\ now' = 0
    /\ UNCHANGED <<outsideLookup, config, client>>

Next ==
    \/ \E d \in Domains, c \in CallerContexts(now) : StartLookup(d, c)
    \/ \E w \in WireResponses : DialOk(w)
    \/ \E cause \in {"connection refused", "i/o timeout", "context canceled",
                     "context deadline exceeded"} : DialFail(cause)
    \/ WriteOk
    \/ \E cause \in {"broken pipe", "i/o timeout"} : WriteFail(cause)
    \/ ReadLine
    \/ ReadEOF
    \/ \E cause \in {"connection reset by peer", "i/o timeout"} : ReadFail(cause)
    \/ Cancel
    \/ Tick
    \/ Return

Spec == Init /\ [][Next]_vars

(***************************************************************************)
(* Properties of Client.Lookup                                             *)
(***************************************************************************)
\* the labels of the domain of the call in progress
Labels == Split(domain, <<".">>)

\* the last two labels joined by ".", and the last label
CompoundTLD == Join(SubSeq(Labels, Len(Labels) - 1, Len(Labels)), <<".">>)

BareTLD == Labels[Len(Labels)]

\* the address a directory entry is dialed at
AddressOf(entry) == JoinHostPort(entry.Host, entry.Port)

\* Lookup has returned, with an error or without
Returned == pc = "done"

\* the structured fields of a result are all empty
NoStructuredFields(r) ==
    /\ r.Registrar = <<>>
    /\ r.CreatedDate = <<>>
    /\ r.ExpiryDate = <<>>
    /\ r.UpdatedDate = <<>>
    /\ r.NameServers = <<>>
    /\ r.Status = <<>>
    /\ r.Emails = <<>>

\* the referral query of this call has returned, with an error or without
ReferralReturned == Returned /\ stage = "referral"

\* the result of a Lookup that queries the primary server only and keeps
\* what that query returned
PrimaryOnlyResult ==
    parseResponse([NewResult(domain, result.Timestamp) EXCEPT
                     !.Server = ServerString(getWhoisServer(client.servers, domain).server),
                     !.RawResponse = response])

\* C1 as stated: Lookup never returns a nil result, and a failed Lookup's
\* result carries only Domain, Timestamp and Error: RawResponse, Server and
\* every structured field are empty.
C1_FailedResultHasNoServer ==
    Returned =>
        /\ result # NilResult
        /\ ~err.nil =>
              /\ result.Domain = domain
              /\ result.Error = ErrorText(err)
              /\ result.RawResponse = <<>>
              /\ result.Server = <<>>
              /\ NoStructuredFields(result)

\* C1 as amended: Lookup never returns a nil result, and a failed Lookup's
\* result carries Domain, Timestamp and Error, with RawResponse and every
\* structured field empty; Server is empty when the domain is malformed, and
\* is the host:port of the primary server when the primary query failed.
C1_FailedResult ==
    Returned =>
        /\ result # NilResult
        /\ ~err.nil =>
              /\ result.Domain = domain
              /\ result.Error = ErrorText(err)
              /\ result.Error # <<>>
              /\ result.RawResponse = <<>>
              /\ NoStructuredFields(result)
              /\ result.ParsedData = EmptyMap
              /\ result.Server =
                    IF Len(Labels) < 2 THEN <<>>
                    ELSE ServerString(getWhoisServer(client.servers, domain).server)

\* a Lookup whose primary query failed to connect has returned
C1_Witness ==
    /\ Returned
    /\ ~err.nil
    /\ err.msg = "failed to connect to WHOIS server"
    /\ result.Server = <<"w","h","o","i","s",".","v","e","r","i","s","i","g","n","-","g","r","s",".","c","o","m",":","4","3">>

\* C2: when the primary query succeeded and the referral query fails, Lookup
\* returns a nil error and the result a Lookup without referral-following
\* returns: the primary response, the primary server, the fields extracted
\* from the primary response. A Lookup of a client that does not follow
\* referrals returns that same result.
C2_FailedReferralKeepsPrimary ==
    /\ (ReferralReturned /\ ~lastQuery.err.nil) =>
          err.nil /\ result = PrimaryOnlyResult
    /\ (Returned /\ err.nil /\ ~client.followReferral) =>
          result = PrimaryOnlyResult

\* a referral query has run into its deadline while reading, after a primary
\* response that holds a registrar
C2_Witness ==
    /\ ReferralReturned
    /\ lastQuery.err.msg = "error reading response"
    /\ lastQuery.err.cause = "i/o timeout"
    /\ result.RawResponse # <<>>

\* C3: after a referral query that succeeded, the result holds the referral
\* response and the referral server if the referral response is strictly
\* longer than the primary response, and the primary response and the primary
\* server if it is of equal length or shorter.
C3_ReplacedIffStrictlyLonger ==
    (ReferralReturned /\ lastQuery.err.nil) =>
        IF Len(lastQuery.response) > Len(response)
        THEN /\ result.RawResponse = lastQuery.response
             /\ result.Server = server.Host \o <<":","4","3">>
        ELSE /\ result.RawResponse = response
             /\ result.Server = ServerString(getWhoisServer(client.servers, domain).server)

\* a referral response as long as the primary response, neither empty, and
\* another server than the primary one
C3_Witness ==
    /\ ReferralReturned
    /\ lastQuery.err.nil
    /\ Len(lastQuery.response) = Len(response)
    /\ Len(response) > 0
    /\ server.Host \o <<":","4","3">> # result.Server

\* C4: in the result of a successful Lookup, Server and RawResponse are those
\* of one query, the primary one or the referral one that replaced it, and the
\* structured fields are the extraction of the retained RawResponse.
C4_ServerAndFieldsOfRetainedResponse ==
    (Returned /\ err.nil) =>
        /\ \/ /\ result.RawResponse = response
              /\ result.Server = ServerString(getWhoisServer(client.servers, domain).server)
           \/ /\ stage = "referral"
              /\ lastQuery.err.nil
              /\ result.RawResponse = lastQuery.response
              /\ result.Server = server.Host \o <<":","4","3">>
        /\ result = parseResponse([NewResult(domain, result.Timestamp) EXCEPT
                                     !.Server = result.Server,
                                     !.RawResponse = result.RawResponse])

\* a referral response has replaced the primary one, and holds a registrar
\* the primary response does not hold
C4_Witness ==
    /\ ReferralReturned
    /\ err.nil
    /\ result.RawResponse = lastQuery.response
    /\ result.RawResponse # response
    /\ result.Registrar = <<"E","x","a","m","p","l","e"," ","I","n","c",".">>
    /\ ~Contains(response, <<"R","e","g","i","s","t","r","a","r">>)

\* C5 as stated: for a domain of at least two labels whose last two labels
\* joined by "." are a key of the directory, the server selected is that
\* key's entry.
C5_CompoundEntryFromTwoLabels ==
    (pc # "idle" /\ Len(Labels) >= 2 /\ CompoundTLD \in DOMAIN client.servers) =>
        /\ attempts # <<>>
        /\ attempts[1] = AddressOf(client.servers[CompoundTLD])

\* C5 as amended: for a domain of at least three labels whose last two labels
\* joined by "." are a key of the directory, the server selected is that
\* key's entry, not the entry of the last label.
C5_CompoundEntryFromThreeLabels ==
    (pc # "idle" /\ Len(Labels) >= 3 /\ CompoundTLD \in DOMAIN client.servers) =>
        /\ attempts # <<>>
        /\ attempts[1] = AddressOf(client.servers[CompoundTLD])

\* a domain under co.uk, in a directory whose co.uk and uk entries differ
C5_Witness ==
    /\ pc = "dial"
    /\ stage = "primary"
    /\ domain = <<"e","x","a","m","p","l","e",".","c","o",".","u","k">>
    /\ client.servers[<<"c","o",".","u","k">>] # client.servers[<<"u","k">>]
    /\ server = client.servers[<<"c","o",".","u","k">>]

\* C6: for a domain of at least two labels a server is selected, and it is
\* the directory's default entry when neither the last two labels joined nor
\* the last label is a key; selection fails only for fewer than two labels.
C6_DefaultEntry ==
    /\ (pc # "idle" /\ Len(Labels) >= 2) =>
          /\ attempts # <<>>
          /\ err.msg # "invalid domain format"
          /\ (CompoundTLD \notin DOMAIN client.servers /\ BareTLD \notin DOMAIN client.servers) =>
                attempts[1] = AddressOf(client.servers[<<"d","e","f","a","u","l","t">>])
    /\ (pc # "idle" /\ attempts = <<>>) => Len(Labels) < 2

\* a domain whose TLD is no key of the directory is being looked up
C6_Witness ==
    /\ pc = "dial"
    /\ stage = "primary"
    /\ domain = <<"e","x","a","m","p","l","e",".","z","z">>
    /\ server = client.servers[<<"d","e","f","a","u","l","t">>]

\* C7: when the normalized domain has fewer than two labels, Lookup returns
\* the malformed-domain error at once and dials no server.
C7_MalformedDomainDialsNothing ==
    (pc # "idle" /\ Len(Labels) < 2) =>
        /\ Returned
        /\ ~err.nil
        /\ err.msg = "invalid domain format"
        /\ attempts = <<>>
        /\ ~lastQuery.returned

\* Lookup of a single label has returned
C7_Witness ==
    /\ Returned
    /\ domain = <<"i","n","v","a","l","i","d">>
    /\ result.Error = ErrorText(err)

\* C8: within one Lookup no address is dialed twice.
C8_OneAttemptPerServer ==
    \A i, j \in 1..Len(attempts) : i # j => attempts[i] # attempts[j]

\* C9: when the connection's deadline passes in the read loop of the primary
\* query after part of the response was read, Lookup returns an error, the
\* query returns no text, and the result holds no RawResponse and no
\* structured field.
C9_NoPartialResult ==
    (Returned /\ stage = "primary" /\ conn.builder # <<>> /\ now >= conn.deadline) =>
        /\ ~err.nil
        /\ lastQuery.response = <<>>
        /\ result.RawResponse = <<>>
        /\ NoStructuredFields(result)
        /\ result.ParsedData = EmptyMap

\* the deadline has passed after the first line of a longer response
C9_Witness ==
    /\ Returned
    /\ stage = "primary"
    /\ conn.builder # <<>>
    /\ conn.rx # <<>>
    /\ now >= conn.deadline
    /\ err.cause = "i/o timeout"

\* C10: once the context is cancelled, a query that is dialing or reading
\* does not go on waiting: no time passes with the query still in that phase.
C10_CancelAbortsQuery ==
    [][(ctx.cancelled /\ pc \in {"dial", "read"}) => ~(pc' = pc /\ now' > now)]_vars


(***************************************************************************)
(* Properties of Client.query                                              *)
(***************************************************************************)
\* the caller set no deadline: it passed nil, for which Lookup makes a context
\* of its own, or a context that has none
CallerSetNoDeadline ==
    ctx.deadline = NoDeadline \/ (~ctx.cancellable /\ ctx.deadline = client.timeout)

\* a query is in progress: dialing, writing or reading
QueryInProgress == pc \in {"dial", "write", "read"}

\* C11: when the caller set no deadline, the query in progress has been
\* dialing, writing and reading for no longer than the configured timeout
\* since it began to dial.
C11_QueryWithinTimeout ==
    (CallerSetNoDeadline /\ QueryInProgress) => now - dialStart <= client.timeout

\* the response Lookup retained is the one of its last query
LastQueryRetained ==
    \/ stage = "primary"
    \/ stage = "referral" /\ ReferralReplaces(lastQuery.err, lastQuery.response, response)

\* C12: the RawResponse of a successful Lookup is, byte for byte, what the
\* server of the retained response sent before it closed the connection.
C12_RawResponseVerbatim ==
    (Returned /\ err.nil /\ LastQueryRetained) => result.RawResponse = conn.wire

(***************************************************************************)
(* Properties of the server directory                                      *)
(***************************************************************************)
\* the CustomServers NewClient was given
CustomServers == IF config = NilConfig THEN EmptyMap ELSE config.CustomServers

\* C13: in every state, before, during and after any number of Lookup calls,
\* the client's directory has exactly the keys of the built-in table and of
\* the caller's CustomServers, each key with the caller's entry when the
\* caller gave one and the built-in entry otherwise.
C13_DirectoryIsBuiltInOverridden ==
    /\ DOMAIN client.servers = DOMAIN DefaultWhoisServers \cup DOMAIN CustomServers
    /\ \A k \in DOMAIN client.servers :
          client.servers[k] = IF k \in DOMAIN CustomServers
                              THEN CustomServers[k]
                              ELSE DefaultWhoisServers[k]

\* a Lookup that used an overriding entry of the directory has returned, on a
\* client whose CustomServers override a built-in key and add a new one
C13_Witness ==
    /\ Returned
    /\ err.nil
    /\ domain = <<"e","x","a","m","p","l","e",".","c","o",".","u","k">>
    /\ result.Server = <<"w","h","o","i","s",".","t","e","s","t",".","c","o","m",":","4","3">>
    /\ <<"c","o",".","u","k">> \in DOMAIN CustomServers \cap DOMAIN DefaultWhoisServers
    /\ <<"t","e","s","t">> \in DOMAIN CustomServers \ DOMAIN DefaultWhoisServers

\* the host of the directory's default entry, the root WHOIS server
DefaultHost == client.servers[<<"d","e","f","a","u","l","t">>].Host

\* C16: the host extractReferralServer returned, which Lookup queries as the
\* referral server, is never the host of the client's default server.
C16_NoReferralToDefaultServer ==
    stage = "referral" => server.Host # DefaultHost

(***************************************************************************)
(* Properties of the queries of one Lookup                                 *)
(***************************************************************************)
\* C22: a Lookup dials at most twice, and at most once when referral-following
\* is disabled; it is in its referral query exactly when it has dialed twice,
\* and then referral-following is enabled, the primary query returned without
\* error a response in which extractReferralServer finds the server dialed
\* second, and the primary query had returned before the second dial began.
C22_AtMostTwoQueriesInSequence ==
    /\ Len(attempts) <= 2
    /\ ~client.followReferral => Len(attempts) <= 1
    /\ Len(attempts) = 2 <=> stage = "referral"
    /\ stage = "referral" =>
          /\ client.followReferral
          /\ extractReferralServer(response) # <<>>
          /\ attempts[2] = JoinHostPort(extractReferralServer(response), <<"4","3">>)
          /\ ~Returned =>
                /\ lastQuery.returned
                /\ lastQuery.err.nil
                /\ lastQuery.response = response

\* a Lookup has returned after a referral query whose response names a
\* referral server in its turn
C22_Witness ==
    /\ Returned
    /\ stage = "referral"
    /\ err.nil
    /\ extractReferralServer(lastQuery.response) # <<>>
    /\ Len(attempts) = 2

(***************************************************************************)
(* Properties of the result Lookup returns                                 *)
(***************************************************************************)
\* the structured field each key of ParsedData mirrors
ParsedKeys ==
    [registrar |-> "Registrar", created_date |-> "CreatedDate",
     expiry_date |-> "ExpiryDate", updated_date |-> "UpdatedDate",
     name_servers |-> "NameServers", status |-> "Status", emails |-> "Emails"]

\* ParsedData holds every key, with the value of the field it mirrors
Mirrored(r) ==
    \A k \in DOMAIN ParsedKeys :
        k \in DOMAIN r.ParsedData /\ r.ParsedData[k] = r[ParsedKeys[k]]

\* C27: in a result Lookup returns with a nil error ParsedData holds exactly
\* the seven keys, each with the value of the structured field of the same
\* result; in a result returned with an error ParsedData is the empty map.
C27_ParsedDataMirrorsOnSuccess ==
    Returned =>
        IF err.nil
        THEN Mirrored(result) /\ DOMAIN result.ParsedData = DOMAIN ParsedKeys
        ELSE result.ParsedData = EmptyMap

\* a Lookup has returned a result with name servers, mirrored in ParsedData
C27_Witness ==
    /\ Returned
    /\ err.nil
    /\ result.NameServers # <<>>
    /\ result.ParsedData["name_servers"] = result.NameServers

\* C27 as stated: in every result Lookup returns ParsedData holds the seven
\* keys, each with the value of the structured field.
C27_ParsedDataMirrorsAlways ==
    Returned => Mirrored(result)

\* C29: Lookup returns a non-nil error exactly when the result's Error is
\* not empty, and then Error is the error's message; a failed referral query
\* leaves both the error nil and Error empty.
C29_ErrorIffResultError ==
    Returned =>
        /\ ~err.nil <=> result.Error # <<>>
        /\ ~err.nil => result.Error = ErrorText(err)
        /\ (stage = "referral" /\ ~lastQuery.err.nil) => err.nil

\* a Lookup has returned without error after its referral query failed
C29_Witness ==
    /\ Returned
    /\ stage = "referral"
    /\ ~lastQuery.err.nil
    /\ err.nil
    /\ result.Error = <<>>
    /\ result.RawResponse = response

(***************************************************************************)
(* Concurrent calls of Client.Lookup on one Client                         *)
(*                                                                         *)
(* Each goroutine runs Lookup on the same *Client. A goroutine's locals    *)
(* (domain, result, response, err, server) are in calls; the WhoisResult   *)
(* it allocated is a cell of heap, and its result is a pointer to it. The  *)
(* steps of a call are the points at which it blocks on the network.       *)
(***************************************************************************)
\* what the goroutines leave alone
outsideGoroutines == <<timedCall, functionCall, allCall, cli>>

\* the domains the goroutines look up
ConcurrentDomains == {
    <<"i","n","v","a","l","i","d">>,
    <<"e","x","a","m","p","l","e",".","c","o","m">>,
    <<"W","W","W",".","E","x","a","m","p","l","e",".","C","O",".","U","K">> }

\* the configurations of the client they share
ConcurrentConfigs == {
    Config(1, FALSE, EmptyMap),
    Config(2, TRUE, MapOf({<<<<"c","o",".","u","k">>, WhoisServer(<<"w","h","o","i","s",".","t","e","s","t",".","c","o","m">>, <<"4","3">>)>>})) }

\* what the network does to their queries
ConcurrentReplies == {
    Reply(<<>>, "connection refused"),
    Reply(<<"W","h","o","i","s"," ","S","e","r","v","e","r",":"," ","w","h","o","i","s",".","e","x","a","m","p","l","e",".","c","o","m","\n">>, ""),
    Reply(<<"R","e","g","i","s","t","r","a","r",":"," ","E","x","a","m","p","l","e"," ","I","n","c",".","\r","\n","N","a","m","e"," ","S","e","r","v","e","r",":"," ","n","s","1",".","e","x","a","m","p","l","e",".","c","o","m","\r","\n","N","a","m","e"," ","S","e","r","v","e","r",":"," ","n","s","2",".","e","x","a","m","p","l","e",".","c","o","m","\r","\n">>, "") }

\* the read loop of query run to the end of the stream
RECURSIVE ReadAll(_, _)
ReadAll(rx, builder) ==
    IF rx = <<>> THEN builder
    ELSE With(ScanLine(rx), LAMBDA t : ReadAll(t.rest, builder \o t.token \o <<"\n">>))

\* what query returns for a reply of the network
queryOf(address, reply) ==
    IF reply.cause # ""
    THEN [response |-> <<>>,
          err |-> Errorf("failed to connect to WHOIS server", address, reply.cause)]
    ELSE [response |-> ReadAll(reply.wire, <<>>), err |-> NilError]

\* every call writing its result to the same WhoisResult
NewCell_Shared(i) == 1

\* &WhoisResult{...}: the address of a WhoisResult no goroutine points to
NewCell(i) == CHOOSE c \in Cells : \A j \in CallIds : calls[j].result # c

\* goroutine i calls Lookup: normalize, allocate the result, pick the server
Begin(i, rawDomain) ==
    LET d == NormalizeDomain(rawDomain)
        cell == NewCell(i)
        sel == getWhoisServer(client.servers, d)
    IN /\ calls[i].pc = "idle"
       /\ heap' = [heap EXCEPT ![cell] =
                     IF sel.err.nil
                     THEN [NewResult(d, 0) EXCEPT !.Server = ServerString(sel.server)]
                     ELSE FailedResult(NewResult(d, 0), sel.err)]
       /\ calls' = [calls EXCEPT ![i] =
                     [@ EXCEPT !.pc = IF sel.err.nil THEN "primary" ELSE "done",
                               !.domain = d,
                               !.result = cell,
                               !.err = sel.err,
                               !.server = sel.server]]
       /\ UNCHANGED <<config, client, outsideGoroutines>>

\* Lookup entering the referral server it found as the directory entry of the
\* domain's last label
ClientAfterReferral_Learns(c, d, referralServer) ==
    IF referralServer = <<>> THEN c
    ELSE [c EXCEPT !.servers =
            MapSet(@, Split(d, <<".">>)[Len(Split(d, <<".">>))], WhoisServer(referralServer, <<"4","3">>))]

\* the Client after Lookup looked for a referral in the primary response:
\* Lookup assigns to no field of c
ClientAfterReferral(c, d, referralServer) == c

\* the primary query of goroutine i returns
PrimaryReturns(i, reply) ==
    LET call == calls[i]
        q == queryOf(JoinHostPort(call.server.Host, call.server.Port), reply)
        res == [heap[call.result] EXCEPT !.RawResponse = q.response]
        referralServer == extractReferralServer(q.response)
    IN /\ call.pc = "primary"
       /\ IF ~q.err.nil
          THEN /\ heap' = [heap EXCEPT ![call.result] = FailedResult(@, q.err)]
               /\ calls' = [calls EXCEPT ![i] =
                             [@ EXCEPT !.pc = "done", !.err = q.err, !.primary = reply]]
          ELSE IF FollowsReferral(client.followReferral, referralServer)
          THEN /\ heap' = [heap EXCEPT ![call.result] = res]
               /\ calls' = [calls EXCEPT ![i] =
                             [@ EXCEPT !.pc = "referral",
                                       !.response = q.response,
                                       !.server = WhoisServer(referralServer, <<"4","3">>),
                                       !.primary = reply]]
          ELSE /\ heap' = [heap EXCEPT ![call.result] = FinishLookup(res)]
               /\ calls' = [calls EXCEPT ![i] =
                             [@ EXCEPT !.pc = "done",
                                       !.response = q.response,
                                       !.primary = reply]]
       /\ client' = ClientAfterReferral(client, call.domain, referralServer)
       /\ UNCHANGED <<config, outsideGoroutines>>

\* the referral query of goroutine i returns
ReferralReturns(i, reply) ==
    LET call == calls[i]
        q == queryOf(JoinHostPort(call.server.Host, call.server.Port), reply)
    IN /\ call.pc = "referral"
       /\ heap' = [heap EXCEPT ![call.result] =
                     FinishLookup(AfterReferral(@, call.server.Host, q.err,
                                                q.response, call.response))]
       /\ calls' = [calls EXCEPT ![i] = [@ EXCEPT !.pc = "done", !.referral = reply]]
       /\ UNCHANGED <<config, client, outsideGoroutines>>

\* the caller of goroutine i has used its result; the goroutine is free for
\* another call
Finish(i) ==
    /\ calls[i].pc = "done"
    /\ heap' = [heap EXCEPT ![calls[i].result] = NilResult]
    /\ calls' = [calls EXCEPT ![i] = IdleCall]
    /\ UNCHANGED <<config, client, outsideGoroutines>>

ConcurrentNext ==
    \/ \E i \in CallIds, d \in ConcurrentDomains : Begin(i, d)
    \/ \E i \in CallIds, reply \in ConcurrentReplies : PrimaryReturns(i, reply)
    \/ \E i \in CallIds, reply \in ConcurrentReplies : ReferralReturns(i, reply)
    \/ \E i \in CallIds : Finish(i)

\* a client of one of the configurations, no call in progress
ConcurrentInit ==
    /\ config \in ConcurrentConfigs
    /\ client = NewClient(config)
    /\ NoTimedCall
    /\ NoGoroutines
    /\ NoFunctionCall
    /\ NoLookupAll
    /\ NoCommand

ConcurrentSpec == ConcurrentInit /\ [][ConcurrentNext]_vars

(***************************************************************************)
(* Properties of concurrent and of repeated calls                          *)
(***************************************************************************)
\* the result of a Lookup that runs alone on a client with this directory:
\* of domain d, the network answering its primary query with primary and its
\* referral query, if it makes one, with referral
LookupAlone(servers, followReferral, d, primary, referral) ==
    With(getWhoisServer(servers, d), LAMBDA sel :
      IF ~sel.err.nil THEN FailedResult(NewResult(d, 0), sel.err)
      ELSE
      With([NewResult(d, 0) EXCEPT !.Server = ServerString(sel.server)], LAMBDA r0 :
      With(queryOf(JoinHostPort(sel.server.Host, sel.server.Port), primary), LAMBDA q1 :
        IF ~q1.err.nil THEN FailedResult(r0, q1.err)
        ELSE
        With(extractReferralServer(q1.response), LAMBDA referralServer :
          IF FollowsReferral(followReferral, referralServer)
          THEN With(queryOf(JoinHostPort(referralServer, <<"4","3">>), referral), LAMBDA q2 :
                 FinishLookup(AfterReferral([r0 EXCEPT !.RawResponse = q1.response],
                                            referralServer, q2.err, q2.response,
                                            q1.response)))
          ELSE FinishLookup([r0 EXCEPT !.RawResponse = q1.response])))))

\* the WhoisResult goroutine i's Lookup returned
ResultOf(i) == heap[calls[i].result]

\* C14: whatever the other goroutines did in the meantime, the result of a
\* call that has returned is the result of the same call running alone with
\* the same replies of the network.
C14_ResultAsIfAlone ==
    \A i \in CallIds :
        calls[i].pc = "done" =>
            ResultOf(i) = LookupAlone(client.servers, client.followReferral,
                                      calls[i].domain, calls[i].primary, calls[i].referral)

\* a call that made a referral query has returned while another goroutine,
\* looking up another domain, is between its two queries
C14_Witness ==
    \E i, j \in CallIds :
        /\ i # j
        /\ calls[i].pc = "done"
        /\ ~calls[i].referral.nil
        /\ ResultOf(i).RawResponse # <<>>
        /\ calls[j].pc = "referral"
        /\ calls[j].domain # calls[i].domain

\* two results agree in Server, RawResponse and every structured field
SameAnswer(r1, r2) ==
    /\ r1.Server = r2.Server
    /\ r1.RawResponse = r2.RawResponse
    /\ r1.Registrar = r2.Registrar
    /\ r1.CreatedDate = r2.CreatedDate
    /\ r1.ExpiryDate = r2.ExpiryDate
    /\ r1.UpdatedDate = r2.UpdatedDate
    /\ r1.NameServers = r2.NameServers
    /\ r1.Status = r2.Status
    /\ r1.Emails = r2.Emails

\* two calls looked up the same domain and the network gave both the same
\* replies
SameCall(i, j) ==
    /\ calls[i].pc = "done"
    /\ calls[j].pc = "done"
    /\ calls[i].domain = calls[j].domain
    /\ calls[i].primary = calls[j].primary
    /\ calls[i].referral = calls[j].referral

\* C15: two calls of the same domain that got the same replies return the
\* same Server, RawResponse and structured fields, whatever calls the client
\* served before, between or during them.
C15_SameCallSameAnswer ==
    \A i, j \in CallIds : SameCall(i, j) => SameAnswer(ResultOf(i), ResultOf(j))

\* two calls of the same domain have returned, each after a referral query
\* that failed
C15_Witness ==
    \E i, j \in CallIds :
        /\ i # j
        /\ SameCall(i, j)
        /\ ~calls[i].referral.nil
        /\ calls[i].referral.cause # ""
        /\ ResultOf(i).RawResponse # <<>>

(***************************************************************************)
(* Functions called on their own                                           *)
(***************************************************************************)
\* what a function call leaves alone
outsideFunctionCall == <<config, client, timedCall, goroutines, allCall, cli>>

\* the strings of at most n characters of an alphabet
Strings(alphabet, n) == UNION {[1..k -> alphabet] : k \in 0..n}

\* n times the character c
Repeat(c, n) == [i \in 1..n |-> c]

\* the arguments of isValidEmail: every short string of "a", "@" and ".", and
\* addresses about as long as the longest one it accepts
EmailInputs ==
    Strings({"a", "@", "."}, MaxInputLen)
        \cup {Repeat("a", n - 4) \o <<"@","b",".","c">> : n \in {MaxEmailLen - 1, MaxEmailLen, MaxEmailLen + 1}}
        \cup {Repeat("a", MaxEmailLen - 2) \o <<"@","b">>, Repeat("a", MaxEmailLen + 1)}

\* sequences of at most n prefixes
RECURSIVE PrefixChains(_)
PrefixChains(n) ==
    IF n = 0 THEN {<<>>}
    ELSE PrefixChains(n - 1) \cup
         {p \o chain : p \in {<<"h","t","t","p",":","/","/">>, <<"h","t","t","p","s",":","/","/">>, <<"w","w","w",".">>, <<"H","T","T","P","S",":","/","/">>, <<"W","w","w",".">>},
                       chain \in PrefixChains(n - 1)}

\* the domains Lookup normalizes: names in either case behind schemes and
\* "www." prefixes, with and without white space around them
DomainInputs ==
    {pad \o chain \o name \o pad :
        pad \in {<<>>, <<" ">>},
        chain \in PrefixChains(MaxPrefixes),
        name \in {<<"e","x","a","m","p","l","e",".","c","o","m">>, <<"E","x","a","m","p","l","e",".","C","O","M">>, <<"w","w","w","e","x","a","m","p","l","e",".","o","r","g">>}}

\* the responses of at most n lines of a pool, each line ended by "\n"
RECURSIVE JoinLines(_)
JoinLines(lines) ==
    IF lines = <<>> THEN <<>> ELSE Head(lines) \o <<"\n">> \o JoinLines(Tail(lines))

Responses(pool, n) == {JoinLines(lines) : lines \in UNION {[1..k -> pool] : k \in 0..n}}

\* the lines of the responses extractReferralServer is called with
ReferralLines == {
    <<"W","h","o","i","s"," ","S","e","r","v","e","r",":"," ","w","h","o","i","s",".","a",".","c","o","m">>,
    <<" "," ","R","E","F","E","R",":"," "," "," ","w","h","o","i","s",":","/","/","w","h","o","i","s",".","b",".","o","r","g"," "," ">>,
    <<"R","e","f","e","r","r","a","l"," ","U","R","L",":"," ","h","t","t","p",":","/","/","w","h","o","i","s",".","c",".","n","e","t","\r">>,
    <<"r","e","f","e","r",":"," ","w","h","o","i","s",".","i","a","n","a",".","o","r","g">>,
    <<"r","e","f","e","r",":"," "," ">>,
    <<"x"," ","r","e","f","e","r",":"," ","w","h","o","i","s",".","d",".","c","o","m">>,
    <<"R","e","g","i","s","t","r","a","r"," ","W","H","O","I","S"," ","S","e","r","v","e","r",":"," ","w","h","o","i","s",".","e",".","c","o","m">>,
    <<"D","o","m","a","i","n"," ","N","a","m","e",":"," ","e","x","a","m","p","l","e",".","c","o","m">>,
    <<"w","h","o","i","s"," ","s","e","r","v","e","r"," ","w","h","o","i","s",".","f",".","c","o","m">>,
    <<"r","e","f","e","r",":"," ","h","t","t","p","s",":","/","/","w","h","o","i","s",".","g",".","i","o",":","4","3","4","3">> }

ReferralInputs == Responses(ReferralLines, MaxLines)

\* lines of the responses parseResponse is called with: scalar fields under
\* their labels, with and without a value, in comments and with colons
ScalarLines == {
    <<"R","e","g","i","s","t","r","a","r",":"," ","A"," ","I","n","c",".">>,
    <<"R","e","g","i","s","t","r","a","r",":">>,
    <<" "," ","S","p","o","n","s","o","r","i","n","g"," ","R","e","g","i","s","t","r","a","r"," ","N","a","m","e",":"," "," ","B"," ","L","t","d"," "," ","\r">>,
    <<"%"," ","R","e","g","i","s","t","r","a","r",":"," ","C">>,
    <<"C","r","e","a","t","i","o","n"," ","D","a","t","e",":"," ","2","0","2","0","-","0","1","-","0","1">>,
    <<"c","r","e","a","t","e","d",":"," "," "," ">>,
    <<"E","x","p","i","r","e","s",":"," ","2","0",":","3","0">>,
    <<"#"," ","E","x","p","i","r","y"," ","D","a","t","e",":"," ","2","0","3","1">>,
    <<"L","a","s","t"," ","U","p","d","a","t","e","d",":"," ","2","0","2","1">>,
    <<"M","o","d","i","f","i","e","d",":"," ","2","0","2","2">> }

\* lines with name servers, statuses and e-mail addresses
ListLines == {
    <<"N","a","m","e"," ","S","e","r","v","e","r",":"," ","N","S","1",".","E","x","a","m","p","l","e",".","C","O","M">>,
    <<"n","s","e","r","v","e","r",":"," ","n","s","1",".","e","x","a","m","p","l","e",".","c","o","m"," ","1","9","2",".","0",".","2",".","1">>,
    <<"N","a","m","e"," ","S","e","r","v","e","r",":"," ","n","s","2",".","e","x","a","m","p","l","e",".","c","o","m","\t","1","9","2",".","0",".","2",".","2">>,
    <<"N","a","m","e"," ","S","e","r","v","e","r",":">>,
    <<"D","o","m","a","i","n"," ","S","t","a","t","u","s",":"," ","o","k">>,
    <<"s","t","a","t","u","s",":"," ","o","k">>,
    <<"S","t","a","t","u","s",":">>,
    <<"E","m","a","i","l",":"," ","<","a","@","b",".","c",">",","," ","a","@","b",".","c">>,
    <<"C","o","n","t","a","c","t"," ","(","A","@","b",".","c",")",";"," ","x","@","y"," ","@","b",".","c"," ","a","@","@","b",".","c">>,
    <<"%"," ","S","t","a","t","u","s",":"," ","h","o","l","d"," ","c","@","d",".","e">> }

ParseInputs == Responses(ScalarLines, MaxLines) \cup Responses(ListLines, MaxLines)

(***************************************************************************)
(* dns.Client.Lookup and dns.Client.LookupSRV                              *)
(***************************************************************************)
Digits == <<"0", "1", "2", "3", "4", "5", "6", "7", "8", "9">>

\* the decimal text of a natural number, as %d formats it
RECURSIVE Itoa(_)
Itoa(n) ==
    IF n < 10 THEN <<Digits[n + 1]>>
    ELSE Itoa(n \div 10) \o <<Digits[(n % 10) + 1]>>

\* the *LookupResult both functions allocate
LookupResult(d, recordType) ==
    [Domain |-> d, RecordType |-> recordType, Records |-> <<>>,
     MXRecords |-> <<>>, SRVRecords |-> <<>>, NameServers |-> <<>>,
     TTL |-> 0, Timestamp |-> 0, Error |-> <<>>, Metadata |-> EmptyMap]

\* an answer of the resolver: the records it returns, and its error
Answer(records, e) == [records |-> records, err |-> e]

\* a record of an answer: an address, a name or a text, with the numbers
\* an MX or SRV record carries
Record(host, pref, weight, port) ==
    [Host |-> host, Pref |-> pref, Weight |-> weight, Port |-> port]

\* the strings lookupA, lookupAAAA and lookupNS make of the answer's records
Hosts(records) == [i \in 1..Len(records) |-> records[i].Host]

\* fmt.Sprintf("%d %s", mx.Pref, mx.Host) for each MX record
FormatMX(records) ==
    [i \in 1..Len(records) |-> Itoa(records[i].Pref) \o <<" ">> \o records[i].Host]

\* fmt.Sprintf("%d %d %d %s", srv.Priority, srv.Weight, srv.Port, srv.Target)
FormatSRV(records) ==
    [i \in 1..Len(records) |->
        Itoa(records[i].Pref) \o <<" ">> \o Itoa(records[i].Weight) \o <<" ">> \o
        Itoa(records[i].Port) \o <<" ">> \o records[i].Host]

\* the end of Lookup returning the error without recording it in the result
ReturnLookup_ErrorOnly(r, e) == [result |-> r, err |-> e]

\* the end of Lookup: a non-nil err is recorded in the result and returned
ReturnLookup(r, e) ==
    IF ~e.nil
    THEN [result |-> [r EXCEPT !.Error = ErrorText(e)], err |-> e]
    ELSE [result |-> r, err |-> NilError]

\* dns.Client.Lookup(ctx, d, recordType), the resolver giving the answer
DNSLookup(d, recordType, answer) ==
    LET r == LookupResult(d, recordType)
        failed == ~answer.err.nil
        hosts == Hosts(answer.records)
    IN CASE recordType \in {"A", "AAAA"} ->
              ReturnLookup([r EXCEPT !.Records = IF failed THEN <<>> ELSE hosts],
                           answer.err)
         [] recordType = "CNAME" ->
              ReturnLookup([r EXCEPT !.Records =
                                IF failed THEN <<>>
                                ELSE <<IF hosts = <<>> THEN <<>> ELSE hosts[1]>>],
                           answer.err)
         [] recordType = "MX" ->
              ReturnLookup([r EXCEPT !.MXRecords = answer.records,
                                     !.Records = IF failed THEN <<>>
                                                 ELSE FormatMX(answer.records)],
                           answer.err)
         [] recordType = "NS" ->
              ReturnLookup([r EXCEPT !.NameServers = IF failed THEN <<>> ELSE hosts,
                                     !.Records = IF failed THEN <<>> ELSE hosts],
                           answer.err)
         [] recordType \in {"TXT", "PTR"} ->
              ReturnLookup([r EXCEPT !.Records = hosts], answer.err)
         [] recordType = "SRV" ->
              [result |-> [r EXCEPT !.Error =
                  <<"SRV lookup requires service, proto, and name. Use LookupSRV method instead">>],
               err |-> Errorf("use LookupSRV for SRV record lookups", <<>>, "")]
         [] OTHER ->
              ReturnLookup(r, Errorf("unsupported record type: %s", recordType, ""))

\* dns.Client.LookupSRV(ctx, service, proto, name)
LookupSRV(service, proto, name, answer) ==
    LET r == LookupResult(<<"_">> \o service \o <<".","_">> \o proto \o <<".">> \o name, "SRV")
    IN IF ~answer.err.nil
       THEN [result |-> [r EXCEPT !.Error = ErrorText(answer.err)], err |-> answer.err]
       ELSE [result |-> [r EXCEPT !.SRVRecords = answer.records,
                                  !.Records = FormatSRV(answer.records)],
             err |-> NilError]

\* the record types of the package, and one that is none of them
LookupRecordTypes == {"A", "AAAA", "CNAME", "MX", "NS", "TXT", "SOA", "PTR", "SRV", "CAA"}

\* the resolver's answers: no record, one record, two records, an error
\* without records and an error with a record
Answers ==
    LET one == Record(<<"1","9","2",".","0",".","2",".","1">>, 10, 0, 53)
        two == Record(<<"m","a","i","l",".","e","x","a","m","p","l","e",".","c","o","m",".">>, 5, 20, 443)
        noHost == Errorf("lookup", <<"e","x","a","m","p","l","e",".","c","o","m">>, "no such host")
        timedOut == Errorf("lookup", <<"e","x","a","m","p","l","e",".","c","o","m">>, "i/o timeout")
    IN {Answer(<<>>, NilError), Answer(<<one>>, NilError), Answer(<<one, two>>, NilError),
        Answer(<<>>, noHost), Answer(<<>>, timedOut), Answer(<<two>>, noHost)}

\* the calls of the two functions: the name of the function, its arguments
\* and the answer the resolver will give
DNSInputs ==
    {<<"Lookup", d, recordType, answer>> :
        d \in {<<"e","x","a","m","p","l","e",".","c","o","m">>, <<"1","9","2",".","0",".","2",".","1">>},
        recordType \in LookupRecordTypes,
        answer \in Answers}
    \cup
    {<<"LookupSRV", service, <<"t","c","p">>, <<"e","x","a","m","p","l","e",".","c","o","m">>, answer>> :
        service \in {<<"s","i","p">>, <<"x","m","p","p">>},
        answer \in Answers}

\* the arguments, and no function called yet
FunctionInit ==
    /\ config = NilConfig
    /\ client = NewClient(config)
    /\ NoTimedCall
    /\ NoGoroutines
    /\ called = ""
    /\ \/ arg \in EmailInputs \cup DomainInputs \cup ReferralInputs \cup ParseInputs
       \/ arg \in DNSInputs
    /\ ret = <<>>
    /\ NoLookupAll
    /\ NoCommand

\* isValidEmail(arg)
CallIsValidEmail ==
    /\ called = ""
    /\ arg \in EmailInputs
    /\ called' = "isValidEmail"
    /\ ret' = isValidEmail(arg)
    /\ UNCHANGED <<arg, outsideFunctionCall>>

\* Lookup's normalization of its domain argument
CallNormalizeDomain ==
    /\ called = ""
    /\ arg \in DomainInputs
    /\ called' = "NormalizeDomain"
    /\ ret' = NormalizeDomain(arg)
    /\ UNCHANGED <<arg, outsideFunctionCall>>

\* c.extractReferralServer(arg)
CallExtractReferralServer ==
    /\ called = ""
    /\ arg \in ReferralInputs
    /\ called' = "extractReferralServer"
    /\ ret' = extractReferralServer(arg)
    /\ UNCHANGED <<arg, outsideFunctionCall>>

\* c.parseResponse(result) on a fresh result whose RawResponse is arg
CallParseResponse ==
    /\ called = ""
    /\ arg \in ParseInputs
    /\ called' = "parseResponse"
    /\ ret' = parseResponse([NewResult(<<"e","x","a","m","p","l","e",".","c","o","m">>, 0) EXCEPT !.RawResponse = arg])
    /\ UNCHANGED <<arg, outsideFunctionCall>>

\* dns.Client.Lookup with arg's domain and record type
CallDNSLookup ==
    /\ called = ""
    /\ arg \in DNSInputs
    /\ arg[1] = "Lookup"
    /\ called' = "Lookup"
    /\ ret' = DNSLookup(arg[2], arg[3], arg[4])
    /\ UNCHANGED <<arg, outsideFunctionCall>>

\* dns.Client.LookupSRV with arg's service, protocol and name
CallLookupSRV ==
    /\ called = ""
    /\ arg \in DNSInputs
    /\ arg[1] = "LookupSRV"
    /\ called' = "LookupSRV"
    /\ ret' = LookupSRV(arg[2], arg[3], arg[4], arg[5])
    /\ UNCHANGED <<arg, outsideFunctionCall>>

FunctionNext ==
    \/ CallIsValidEmail
    \/ CallNormalizeDomain
    \/ CallExtractReferralServer
    \/ CallParseResponse
    \/ CallDNSLookup
    \/ CallLookupSRV

FunctionSpec == FunctionInit /\ [][FunctionNext]_vars

(***************************************************************************)
(* Properties of the functions                                             *)
(***************************************************************************)
\* the positions of c in s
Positions(s, c) == {i \in 1..Len(s) : s[i] = c}

\* an address as the validator's contract describes it: 3 to 254 characters,
\* exactly one "@", something before it, and after it something with a "."
WellFormedEmail(e) ==
    /\ Len(e) >= 3
    /\ Len(e) <= 254
    /\ Cardinality(Positions(e, "@")) = 1
    /\ \A at \in Positions(e, "@") :
          /\ at > 1
          /\ at < Len(e)
          /\ \E dot \in Positions(e, ".") : dot > at

\* C17: isValidEmail returns true for the well-formed addresses and false for
\* every other string.
C17_IsValidEmail ==
    called = "isValidEmail" => (ret <=> WellFormedEmail(arg))

\* isValidEmail accepted an address of the greatest length it allows
C17_Witness ==
    /\ called = "isValidEmail"
    /\ ret = TRUE
    /\ Len(arg) = 254

\* the text contains an upper-case letter
HasUpperCase(s) == \E i \in 1..Len(s) : s[i] \in Range(UpperCase)

\* C18: the normalized domain begins with no scheme and no "www.", contains
\* no upper-case letter, and is left unchanged by a second normalization.
C18_NormalizedDomain ==
    called = "NormalizeDomain" =>
        /\ ~HasPrefix(ret, <<"h","t","t","p",":","/","/">>)
        /\ ~HasPrefix(ret, <<"h","t","t","p","s",":","/","/">>)
        /\ ~HasPrefix(ret, <<"w","w","w",".">>)
        /\ ~HasUpperCase(ret)
        /\ NormalizeDomain(ret) = ret

(***************************************************************************)
(* Properties of extractReferralServer                                     *)
(***************************************************************************)
\* the lines of the function's argument
ArgLines == Split(arg, <<"\n">>)

\* the text after the first colon of a text that has one
AfterFirstColon(t) == SubSeq(t, Index(t, <<":">>) + 2, Len(t))

\* the referral candidate of a line: for a line that, trimmed and lowercased,
\* begins with a referral label, the trimmed text after its first colon
\* without the schemes whois://, http:// and https://; "" for any other line
CandidateOf(rawLine) ==
    LET t == TrimSpace(rawLine)
    IN IF \E label \in {<<"w","h","o","i","s"," ","s","e","r","v","e","r",":">>, <<"r","e","f","e","r","r","a","l"," ","u","r","l",":">>, <<"r","e","f","e","r",":">>} :
             HasPrefix(ToLower(t), label)
       THEN TrimPrefix(TrimPrefix(TrimPrefix(TrimSpace(AfterFirstColon(t)),
                <<"w","h","o","i","s",":","/","/">>), <<"h","t","t","p",":","/","/">>), <<"h","t","t","p","s",":","/","/">>)
       ELSE <<>>

\* the lines with a valid candidate: not empty and not the root server
ValidCandidates ==
    {i \in 1..Len(ArgLines) :
        CandidateOf(ArgLines[i]) \notin {<<>>, <<"w","h","o","i","s",".","i","a","n","a",".","o","r","g">>}}

\* C21: extractReferralServer returns the candidate of the first line, in
\* line order, that has a valid one, and "" when no line has one; only a label
\* at the start of the trimmed line makes a candidate.
C21_FirstValidCandidate ==
    called = "extractReferralServer" =>
        ret = IF ValidCandidates = {} THEN <<>>
              ELSE CandidateOf(ArgLines[SetMin(ValidCandidates)])

\* a response whose first line refers to the root server, or holds a label
\* that is not at its start, and whose second line has a valid candidate
C21_Witness ==
    /\ called = "extractReferralServer"
    /\ ret # <<>>
    /\ 1 \notin ValidCandidates
    /\ 2 \in ValidCandidates
    /\ Contains(ToLower(ArgLines[1]), <<"r","e","f","e","r",":">>)

(***************************************************************************)
(* Properties of parseResponse                                             *)
(***************************************************************************)
\* the lines parseResponse does not skip: not blank, and no comment
Parsed(i) ==
    LET t == TrimSpace(ArgLines[i])
    IN t # <<>> /\ ~HasPrefix(t, <<"%">>) /\ ~HasPrefix(t, <<"#">>)

\* the trimmed text after the first colon of line i
ValueOf(i) == TrimSpace(AfterFirstColon(TrimSpace(ArgLines[i])))

\* the lines that are not skipped and hold one of the labels
Matching(labels) ==
    {i \in 1..Len(ArgLines) :
        Parsed(i) /\ \E l \in labels : Contains(ToLower(ArgLines[i]), l)}

\* the value of the first line of a set, "" for the empty set
FirstValue(lines) == IF lines = {} THEN <<>> ELSE ValueOf(SetMin(lines))

\* the label sets of the scalar fields
ScalarLabels ==
    [Registrar |-> {<<"r","e","g","i","s","t","r","a","r",":">>, <<"r","e","g","i","s","t","r","a","r"," ","n","a","m","e",":">>},
     CreatedDate |-> {<<"c","r","e","a","t","i","o","n"," ","d","a","t","e",":">>, <<"c","r","e","a","t","e","d",":">>, <<"r","e","g","i","s","t","e","r","e","d",":">>},
     ExpiryDate |-> {<<"e","x","p","i","r","y"," ","d","a","t","e",":">>, <<"e","x","p","i","r","a","t","i","o","n"," ","d","a","t","e",":">>, <<"e","x","p","i","r","e","s",":">>},
     UpdatedDate |-> {<<"u","p","d","a","t","e","d"," ","d","a","t","e",":">>, <<"l","a","s","t"," ","u","p","d","a","t","e","d",":">>, <<"m","o","d","i","f","i","e","d",":">>}]

\* C23: each scalar field holds the trimmed text after the first colon of
\* the first line, in response order, that is not skipped, holds one of the
\* field's labels and has a non-empty value; it is empty when there is none.
C23_FirstNonEmptyMatchWins ==
    called = "parseResponse" =>
        \A f \in DOMAIN ScalarLabels :
            ret[f] = FirstValue({i \in Matching(ScalarLabels[f]) : ValueOf(i) # <<>>})

\* two lines with different values matched the registrar's labels
C23_Witness ==
    /\ called = "parseResponse"
    /\ Cardinality(Matching(ScalarLabels.Registrar)) = 2
    /\ ValueOf(1) # <<>>
    /\ ValueOf(2) \notin {<<>>, ValueOf(1)}
    /\ ret.Registrar = ValueOf(1)

\* C23 as stated: each scalar field holds the value of the first line that
\* holds one of its labels.
C23_FirstMatchWins ==
    called = "parseResponse" =>
        \A f \in DOMAIN ScalarLabels :
            ret[f] = FirstValue(Matching(ScalarLabels[f]))

\* the text up to the first character of a set, a text without one unchanged
CutAt(s, stops) ==
    LET at == {i \in 1..Len(s) : s[i] \in stops}
    IN IF at = {} THEN s ELSE SubSeq(s, 1, SetMin(at) - 1)

NameServerLabels == {<<"n","a","m","e"," ","s","e","r","v","e","r",":">>, <<"n","s","e","r","v","e","r",":">>, <<"n","a","m","e","s","e","r","v","e","r",":">>}

\* the name server line i holds: its value in lower case, up to the first
\* white space
NameServerAt(i) == CutAt(ToLower(ValueOf(i)), {" ", "\t"})

\* the first line that holds the name server ns
FirstLineOf(ns) == SetMin({i \in Matching(NameServerLabels) : NameServerAt(i) = ns})

\* C24: every entry of NameServers is in lower case and holds no white space,
\* space or tab; no two entries are equal; the entries are the values of the
\* name server lines cut at their first white space, in order of first
\* occurrence.
C24_NameServersCutAtWhiteSpace ==
    called = "parseResponse" =>
        /\ \A k \in 1..Len(ret.NameServers) :
              /\ ToLower(ret.NameServers[k]) = ret.NameServers[k]
              /\ \A n \in 1..Len(ret.NameServers[k]) : ~IsSpace(ret.NameServers[k][n])
        /\ \A j, k \in 1..Len(ret.NameServers) :
              j # k => ret.NameServers[j] # ret.NameServers[k]
        /\ Range(ret.NameServers) = {NameServerAt(i) : i \in Matching(NameServerLabels)}
        /\ \A j, k \in 1..Len(ret.NameServers) :
              j < k => FirstLineOf(ret.NameServers[j]) < FirstLineOf(ret.NameServers[k])

StatusLabels == {<<"s","t","a","t","u","s",":">>, <<"d","o","m","a","i","n"," ","s","t","a","t","u","s",":">>}

\* the values of a set of lines, in line order
RECURSIVE ValuesOf(_)
ValuesOf(lines) ==
    IF lines = {} THEN <<>>
    ELSE <<ValueOf(SetMin(lines))>> \o ValuesOf(lines \ {SetMin(lines)})

\* C25: Status holds, in line order and without deduplication, the value of
\* every line that is not skipped, holds a status label and has a non-empty
\* value; a status line with an empty value adds no entry.
C25_StatusOfLinesWithValue ==
    called = "parseResponse" =>
        ret.Status = ValuesOf({i \in Matching(StatusLabels) : ValueOf(i) # <<>>})

\* two status lines with the same value made two entries
C25_Witness ==
    /\ called = "parseResponse"
    /\ Len(ret.Status) = 2
    /\ ret.Status[1] = ret.Status[2]
    /\ ArgLines[1] = ArgLines[2]

\* C25 as stated: Status has one entry for every line that is not skipped and
\* holds a status label.
C25_StatusOfEveryLine ==
    called = "parseResponse" =>
        Len(ret.Status) = Cardinality(Matching(StatusLabels))

\* the words of line i
WordsOf(i) == Fields(ArgLines[i])

\* a word without the punctuation around it
Stripped(word) == Trim(word, {",", ":", ";", "(", ")", "<", ">", "[", "]"})

\* the places <<line, word>> of the words that hold an address: in a line
\* that is not skipped, with "@" and ".", valid once stripped
AddressPlaces ==
    {p \in UNION {{<<i, w>> : w \in 1..Len(WordsOf(i))} : i \in 1..Len(ArgLines)} :
        /\ Parsed(p[1])
        /\ Contains(WordsOf(p[1])[p[2]], <<"@">>)
        /\ Contains(WordsOf(p[1])[p[2]], <<".">>)
        /\ isValidEmail(Stripped(WordsOf(p[1])[p[2]]))}

AddressAt(p) == Stripped(WordsOf(p[1])[p[2]])

\* place p comes before place q in the response
Before(p, q) == p[1] < q[1] \/ (p[1] = q[1] /\ p[2] < q[2])

\* the first place of an address
FirstPlaceOf(e) ==
    CHOOSE p \in AddressPlaces :
        /\ AddressAt(p) = e
        /\ \A q \in AddressPlaces : AddressAt(q) = e => (q = p \/ Before(p, q))

\* C26: every entry of Emails passes isValidEmail, no two entries are equal,
\* the entries are exactly the addresses of the words that hold one, and they
\* are in the order in which they first occur.
C26_EmailsValidDistinctInOrder ==
    called = "parseResponse" =>
        /\ \A k \in 1..Len(ret.Emails) : isValidEmail(ret.Emails[k])
        /\ \A j, k \in 1..Len(ret.Emails) : j # k => ret.Emails[j] # ret.Emails[k]
        /\ Range(ret.Emails) = {AddressAt(p) : p \in AddressPlaces}
        /\ \A j, k \in 1..Len(ret.Emails) :
              j < k => Before(FirstPlaceOf(ret.Emails[j]), FirstPlaceOf(ret.Emails[k]))

\* a response with the same address at two places and another address after
\* them, among words that hold no valid address
C26_Witness ==
    /\ called = "parseResponse"
    /\ Cardinality(AddressPlaces) = 3
    /\ Len(ret.Emails) = 2
    /\ AddressAt(<<1, 2>>) = ret.Emails[1]
    /\ AddressAt(<<1, 3>>) = ret.Emails[1]

\* C30: no entry of NameServers is the empty string.
C30_NoEmptyNameServer ==
    called = "parseResponse" => <<>> \notin Range(ret.NameServers)

(***************************************************************************)
(* Properties of dns.Client.Lookup and dns.Client.LookupSRV                *)
(***************************************************************************)
\* C28: Lookup and LookupSRV return a non-nil result, and a non-nil error
\* exactly when the result's Error is not empty; a Lookup of type SRV and a
\* Lookup of a type without a handler return both a result with an Error
\* and a non-nil error.
C28_ErrorIffResultError ==
    called \in {"Lookup", "LookupSRV"} =>
        /\ ret.result # NilResult
        /\ ~ret.err.nil <=> ret.result.Error # <<>>
        /\ (called = "Lookup" /\ arg[3] \in {"SRV", "SOA"}) =>
              ~ret.err.nil /\ ret.result.Error # <<>>

\* a Lookup of a record type without a handler has returned an error and a
\* result that holds the error's text, whatever the answer of the resolver
C28_Witness ==
    /\ called = "Lookup"
    /\ arg[3] = "SOA"
    /\ arg[4].err.nil
    /\ ~ret.err.nil
    /\ ret.result.Error = ErrorText(ret.err)
    /\ ret.result.Records = <<>>

(***************************************************************************)
(* lookup.Client.LookupAll, with dns.Client.LookupAll and dns.Client.Lookup *)
(***************************************************************************)
\* what a LookupAll call leaves alone
outsideLookupAll == <<config, client, timedCall, goroutines, functionCall, cli>>

\* recordTypes of dns.Client.LookupAll
RecordTypes == <<"A", "AAAA", "CNAME", "MX", "NS", "TXT">>

\* the domains LookupAll is called with
LookupAllDomains == {<<"e","x","a","m","p","l","e",".","c","o","m">>, <<"i","n","v","a","l","i","d">>}

\* the *LookupResult and the error dns.Client.Lookup returns: with a resolver
\* error cause, both carry it; with none (cause ""), the error is nil
dnsLookup(d, recordType, cause) ==
    [result |-> [Domain |-> d, RecordType |-> recordType, Error |-> cause],
     err |-> IF cause = "" THEN NilError ELSE Errorf(cause, <<>>, "")]

\* what dns.Client.LookupAll returns: the results, and always a nil error
dnsLookupAllReturns(results) == [results |-> results, err |-> NilError]

\* the *WhoisResult and the error whois.Client.Lookup returns for a reply of
\* the network to its primary query, a referral server being out of reach
whoisLookup(d, reply) ==
    With(LookupAlone(client.servers, client.followReferral, NormalizeDomain(d), reply,
                     Reply(<<>>, "connection refused")), LAMBDA r :
        [result |-> r,
         err |-> IF r.Error = <<>> THEN NilError ELSE Errorf("whois", r.Error, "")])

\* a nil *DomainInfo, a nil map, a nil *WhoisResult
NilInfo == [nil |-> TRUE]

\* LookupAll is called: info := &DomainInfo{Domain: domain}, and
\* dns.Client.LookupAll begins with an empty map of results
CallLookupAll(d) ==
    /\ allCall.pc = "idle"
    /\ allCall' = [pc |-> "dns",
                   info |-> [nil |-> FALSE, Domain |-> d, DNS |-> NilInfo,
                             WHOIS |-> NilResult, Error |-> <<>>],
                   err |-> NilError,
                   results |-> <<>>,
                   lookups |-> <<>>]
    /\ UNCHANGED outsideLookupAll

\* one iteration of dns.Client.LookupAll's loop: the lookup of the next
\* record type, which succeeds (cause "") or fails
DNSLookupOne(cause) ==
    LET rt == RecordTypes[Len(allCall.results) + 1]
        got == dnsLookup(allCall.info.Domain, rt, cause)
        res == IF ~got.err.nil
               THEN [got.result EXCEPT !.Error = got.err.msg]
               ELSE got.result
    IN /\ allCall.pc = "dns"
       /\ Len(allCall.results) < Len(RecordTypes)
       /\ allCall' = [allCall EXCEPT !.results = Append(@, res),
                                     !.lookups = Append(@, rt)]
       /\ UNCHANGED outsideLookupAll

\* dns.Client.LookupAll returns, and LookupAll takes its results
DNSLookupAllDone ==
    LET got == dnsLookupAllReturns(allCall.results)
    IN /\ allCall.pc = "dns"
       /\ Len(allCall.results) = Len(RecordTypes)
       /\ allCall' = [allCall EXCEPT
             !.pc = "whois",
             !.info.Error = IF ~got.err.nil
                            THEN <<"DNS lookup failed: ", got.err.msg>>
                            ELSE @,
             !.info.DNS = got.results]
       /\ UNCHANGED outsideLookupAll

\* the WHOIS lookup, and LookupAll's return
WHOISLookupDone(reply) ==
    /\ allCall.pc = "whois"
    /\ allCall' = With(whoisLookup(allCall.info.Domain, reply), LAMBDA got :
          [allCall EXCEPT
             !.pc = "done",
             !.info.Error = IF got.err.nil THEN @
                            ELSE IF @ # <<>>
                            THEN @ \o <<"; ", "WHOIS lookup failed: ", got.err.arg>>
                            ELSE <<"WHOIS lookup failed: ", got.err.arg>>,
             !.info.WHOIS = got.result,
             !.err = NilError,
             !.lookups = Append(@, "WHOIS")])
    /\ UNCHANGED outsideLookupAll

\* the caller has the DomainInfo
LookupAllReturn ==
    /\ allCall.pc = "done"
    /\ allCall' = [pc |-> "idle"]
    /\ UNCHANGED outsideLookupAll

LookupAllInit ==
    /\ config = NilConfig
    /\ client = NewClient(config)
    /\ NoTimedCall
    /\ NoGoroutines
    /\ NoFunctionCall
    /\ NoLookupAll
    /\ NoCommand

LookupAllNext ==
    \/ \E d \in LookupAllDomains : CallLookupAll(d)
    \/ \E cause \in {"", "no such host"} : DNSLookupOne(cause)
    \/ DNSLookupAllDone
    \/ \E reply \in ConcurrentReplies : WHOISLookupDone(reply)
    \/ LookupAllReturn

LookupAllSpec == LookupAllInit /\ [][LookupAllNext]_vars

(***************************************************************************)
(* Properties of LookupAll                                                 *)
(***************************************************************************)
\* a DNS lookup of the call failed; its WHOIS lookup failed
SomeDNSLookupFailed ==
    \E k \in 1..Len(allCall.info.DNS) : allCall.info.DNS[k].Error # ""

WHOISLookupFailed == allCall.info.WHOIS.Error # <<>>

\* C19: LookupAll returns a DomainInfo and a nil error, its last lookup is
\* the WHOIS lookup, made after the six DNS lookups, and the DomainInfo's
\* Error is empty only if no DNS lookup and not the WHOIS lookup failed.
C19_LookupAllRecordsFailures ==
    allCall.pc = "done" =>
        /\ ~allCall.info.nil
        /\ allCall.err.nil
        /\ allCall.lookups = RecordTypes \o <<"WHOIS">>
        /\ (SomeDNSLookupFailed \/ WHOISLookupFailed) => allCall.info.Error # <<>>

(***************************************************************************)
(* The command dns-lookup: main and parseFlags                             *)
(***************************************************************************)
\* what a run of the command leaves alone
outsideCommand == <<config, client, timedCall, goroutines, functionCall, allCall>>

\* the command lines: for each flag whether, or with what value, it is given,
\* and the positional argument
CommandLines ==
    [d : {<<>>, <<"e","x","a","m","p","l","e",".","c","o","m">>},
     positional : {<<>>, <<"e","x","a","m","p","l","e",".","o","r","g">>},
     w : BOOLEAN,
     dns : BOOLEAN,
     a : BOOLEAN,
     srv : {<<>>, <<"x","m","p","p",",","t","c","p",",","e","x","a","m","p","l","e",".","c","o","m">>, <<"x","m","p","p">>},
     v : BOOLEAN]

\* the options parseFlags returns
parseFlags(args) ==
    [domain |-> IF args.d = <<>> /\ args.positional # <<>> THEN args.positional ELSE args.d,
     whoisOnly |-> args.w,
     dnsOnly |-> args.dns,
     all |-> args.a,
     srv |-> args.srv,
     showVersion |-> args.v]

\* main has its options
RunCommand(args) ==
    /\ cli.pc = "none"
    /\ cli' = [pc |-> "main", opts |-> parseFlags(args), lookups |-> <<>>, exit |-> 0]
    /\ UNCHANGED outsideCommand

\* os.Exit(code), or main's return for code 0, after these lookups
Exit(code, lookups) ==
    /\ cli' = [cli EXCEPT !.pc = "exit", !.exit = code, !.lookups = lookups]
    /\ UNCHANGED outsideCommand

\* main prints the version
ShowVersion ==
    /\ cli.pc = "main"
    /\ cli.opts.showVersion
    /\ Exit(0, <<>>)

\* main finds neither a domain nor an SRV name
DomainRequired ==
    /\ cli.pc = "main"
    /\ ~cli.opts.showVersion
    /\ cli.opts.domain = <<>> /\ cli.opts.srv = <<>>
    /\ Exit(1, <<>>)

\* main is past its checks of the options
Checked ==
    /\ cli.pc = "main"
    /\ ~cli.opts.showVersion
    /\ ~(cli.opts.domain = <<>> /\ cli.opts.srv = <<>>)

\* handleSRVLookup: a malformed -srv value, or the lookup, which may fail
HandleSRVLookup(failed) ==
    /\ Checked
    /\ cli.opts.srv # <<>>
    /\ IF Len(Split(cli.opts.srv, <<",">>)) # 3
       THEN Exit(1, <<>>)
       ELSE Exit(IF failed THEN 1 ELSE 0, <<"SRV">>)

\* handleAllLookup: LookupAll makes the six DNS lookups and the WHOIS lookup
HandleAllLookup ==
    /\ Checked
    /\ cli.opts.srv = <<>>
    /\ cli.opts.all
    /\ Exit(0, RecordTypes \o <<"WHOIS">>)

\* handleWhoisLookup
HandleWhoisLookup(failed) ==
    /\ Checked
    /\ cli.opts.srv = <<>>
    /\ ~cli.opts.all
    /\ cli.opts.whoisOnly
    /\ Exit(IF failed THEN 1 ELSE 0, <<"WHOIS">>)

\* handleDNSLookup, of the default record type
HandleDNSLookup(failed) ==
    /\ Checked
    /\ cli.opts.srv = <<>>
    /\ ~cli.opts.all
    /\ ~cli.opts.whoisOnly
    /\ Exit(IF failed THEN 1 ELSE 0, <<"A">>)

\* the process is gone
CommandDone ==
    /\ cli.pc = "exit"
    /\ cli' = [pc |-> "none"]
    /\ UNCHANGED outsideCommand

CommandInit ==
    /\ config = NilConfig
    /\ client = NewClient(config)
    /\ NoTimedCall
    /\ NoGoroutines
    /\ NoFunctionCall
    /\ NoLookupAll
    /\ NoCommand

CommandNext ==
    \/ \E args \in CommandLines : RunCommand(args)
    \/ ShowVersion
    \/ DomainRequired
    \/ \E failed \in BOOLEAN : HandleSRVLookup(failed)
    \/ HandleAllLookup
    \/ \E failed \in BOOLEAN : HandleWhoisLookup(failed)
    \/ \E failed \in BOOLEAN : HandleDNSLookup(failed)
    \/ CommandDone

CommandSpec == CommandInit /\ [][CommandNext]_vars

(***************************************************************************)
(* Properties of the command                                               *)
(***************************************************************************)
\* C20: a run of the command with the -dns flag makes no WHOIS lookup,
\* whatever other mode flags it was given.
C20_DNSOnlyMakesNoWHOISLookup ==
    (cli.pc = "exit" /\ cli.opts.dnsOnly) => "WHOIS" \notin Range(cli.lookups)
====
